---- MODULE Spec2Model ----
(***************************************************************************)
(* A model of the core of stupid-cms (src/cms/models.py): the page tree    *)
(* with its denormalised paths and titles, and the allocation of block     *)
(* positions within a page.                                                *)
(*                                                                         *)
(* Strings are sequences of one-character strings, so that joining and     *)
(* splitting them is computed as the code computes it.  A parent of 0 is   *)
(* Python's None.                                                          *)
(***************************************************************************)
EXTENDS Integers, Sequences, FiniteSets, TLC

VARIABLES
    pages,      \* the cms_page table: page id -> row
    last,       \* the last page operation and how it ended
    held,       \* a Page instance kept in memory across saves (id 0: none)
    blocks,     \* the cms_block rows of one page, in the order of the
                \* unique (parent_page, position) index: <<[id, position]>>
    call,       \* the call of get_position_after or redistribute_positions
                \* in progress on that page, or how the last one ended
    others,     \* the cms_block rows of a second page, in the same form
    txn,        \* the queryset redistribute_positions was called on and the
                \* transaction it has open
    texts,      \* the text blocks: block id -> [page, published, content]
    refs,       \* the cms_reference table: reference id -> row
    done,       \* the last operation on text blocks and references and how
                \* it ended
    store,      \* the cms_block and cms_textblock tables of one page, row by
                \* row with every column: [block, textblock]
    proc        \* the requests in progress next to each other, and what the
                \* last read returned

pageVars == <<pages, last, held>>
blockVars == <<blocks, call>>
restVars == <<others, txn, texts, refs, done, store, proc>>
vars ==
    <<pages, last, held, blocks, call, others, txn, texts, refs, done, store,
      proc>>

(***************************************************************************)
(* Bounds of the model.                                                    *)
(***************************************************************************)
MaxPages == 3
\* the blocks of a page, on the pages whose every layout is enumerated
MaxBlocks == 3
\* the longest stored path and title list followed with a held instance
MaxPathLen == 3
\* the nested retries of get_position_after after which the model gives up,
\* as Python does at its recursion limit
MaxRedistributions == 2
\* the pieces of the longest content find_references is applied to
MaxTextLen == 7
\* the References created in one run
MaxRefs == 2
\* the pages of the trees the sidebar and the breadcrumbs are read from
MaxTreePages == 6
\* the time of the last request, in units of the clock
MaxTime == 3
\* the blocks of a page filled by insertions, and those of them inserted
\* after the last block
MaxGrown == 21
MaxAppends == 2

(***************************************************************************)
(* Constants of the program.                                               *)
(***************************************************************************)
\* the largest value of Block.position, a PositiveSmallIntegerField
MaxPosition == 32767
\* the position of the first block of an empty page
FirstPosition == 100
\* the distance at which a block is put after the last block
StepAfterLast == 100

(***************************************************************************)
(* The values a title and a slug field are given.  "!" stands for any      *)
(* character slugify drops; a blank slug field is the empty string.        *)
(***************************************************************************)
Titles == {<<"A">>, <<"!">>}
SlugInputs == {<<>>, <<"b">>}
\* the titles of the pages of SpecHeld, whose slugs are all derived
HeldTitles == {<<"A">>, <<"B">>}

NoInstance ==
    [id |-> 0, parent |-> 0, slug |-> <<>>, title |-> <<>>,
     denormalised_path |-> <<>>, denormalised_titles |-> <<>>,
     old_slug |-> <<>>, old_parent_id |-> 0]

Idle == [op |-> "none", page |-> 0, arg |-> 0, status |-> "none"]

\* no call: op is the operation, req the anchor asked for, was its position
\* then, after the anchor of the activation that runs, plan the order in
\* which the database returns unordered rows during the call,
\* redistributions the redistributions done for the call, result the value
\* returned
NoCall ==
    [op |-> "none", pc |-> "idle", req |-> 0, was |-> 0, after |-> 0,
     plan |-> "none", redistributions |-> 0, result |-> 0]

\* no queryset: pc is "closed" or "open" (inside transaction.atomic()), sel1
\* and sel2 the ids selected on the first and the second page, rows the
\* selected rows as the transaction sees them, next the row saved next
NoTxn ==
    [pc |-> "closed", sel1 |-> {}, sel2 |-> {}, rows |-> <<>>, next |-> 0]

\* no operation on text blocks and references yet
Quiet ==
    [op |-> "none", page |-> 0, block |-> 0, referenced_block |-> 0,
     referenced_page |-> 0, content |-> <<>>, status |-> "none",
     named |-> {}, singular |-> FALSE]

\* no block table of the kind `store` holds
NoStore == [block |-> <<>>, textblock |-> <<>>]

\* no request in progress
NoProc == [op |-> "none"]

PageIds == DOMAIN pages

(***************************************************************************)
(* String helpers.                                                         *)
(***************************************************************************)
RECURSIVE Join(_, _)
\* sep.join(parts)
Join(sep, parts) ==
    IF parts = <<>> THEN <<>>
    ELSE IF Len(parts) = 1 THEN parts[1]
    ELSE parts[1] \o sep \o Join(sep, Tail(parts))

NonEmpty(part) == part # <<>>

\* [part for part in parts if part]
Truthy(parts) == SelectSeq(parts, NonEmpty)

SlugChar(c) ==
    IF c = "A" THEN <<"a">>
    ELSE IF c = "B" THEN <<"b">>
    ELSE IF c \in {"a", "b"} THEN <<c>>
    ELSE <<>>

RECURSIVE slugify(_)
\* django.utils.text.slugify on the model's alphabet: lower-case the word
\* characters, drop the others.
slugify(title) ==
    IF title = <<>> THEN <<>>
    ELSE SlugChar(Head(title)) \o slugify(Tail(title))

(***************************************************************************)
(* Page instances.                                                         *)
(***************************************************************************)
\* Page.__init__ on a row read from the table.
PageFromDb(db, x) ==
    [id |-> x, parent |-> db[x].parent, slug |-> db[x].slug,
     title |-> db[x].title,
     denormalised_path |-> db[x].denormalised_path,
     denormalised_titles |-> db[x].denormalised_titles,
     old_slug |-> db[x].slug, old_parent_id |-> db[x].parent]

\* Page.__init__ on Page(title=..., slug=..., parent=...).
NewPage(title, slug, parent) ==
    [id |-> 0, parent |-> parent, slug |-> slug, title |-> title,
     denormalised_path |-> <<>>, denormalised_titles |-> <<>>,
     old_slug |-> slug, old_parent_id |-> parent]

RowOf(inst) ==
    [parent |-> inst.parent, slug |-> inst.slug, title |-> inst.title,
     denormalised_path |-> inst.denormalised_path,
     denormalised_titles |-> inst.denormalised_titles]

denormalised_path_parts(db, inst) ==
    Truthy(<<db[inst.parent].denormalised_path, db[inst.parent].slug>>)

generate_denormalised_path(db, inst) ==
    IF inst.parent # 0
    THEN Join(<<"/">>, denormalised_path_parts(db, inst))
    ELSE <<>>

denormalised_title_parts(db, inst) ==
    Truthy(<<db[inst.parent].denormalised_titles, db[inst.parent].title>>)

generate_denormalised_titles(db, inst) ==
    IF inst.parent # 0
    THEN Join(<<"\n">>, denormalised_title_parts(db, inst))
    ELSE <<>>

denormalise_path(db, inst) ==
    [inst EXCEPT !.denormalised_path = generate_denormalised_path(db, inst),
                 !.denormalised_titles = generate_denormalised_titles(db, inst)]

path_needs_redenormalising(inst) ==
    \/ inst.denormalised_path = <<>> /\ inst.parent # 0
    \/ inst.denormalised_path # <<>> /\ inst.parent = 0
    \/ inst.old_slug # inst.slug
    \/ inst.old_parent_id # inst.parent

RECURSIVE WalkParents(_, _, _, _)
\* The while loop of _validate_noncyclic_hierarchy, from `parent` upwards:
\* "raise" when self is met, "return" at the root, "hang" when the chain
\* never ends (fuel counts the rows; a longer walk is inside a cycle).
WalkParents(db, self, parent, fuel) ==
    IF parent = 0 THEN "return"
    ELSE IF parent = self THEN "raise"
    ELSE IF fuel = 0 THEN "hang"
    ELSE WalkParents(db, self, db[parent].parent, fuel - 1)

\* Page._validate_noncyclic_hierarchy: skipped for a stored page whose parent
\* is the one cached at load, otherwise the walk from the new parent upwards.
validate_noncyclic_hierarchy(db, inst) ==
    IF inst.id # 0 /\ inst.old_parent_id = inst.parent THEN "return"
    ELSE IF inst.parent = 0 THEN "return"
    ELSE WalkParents(db, inst.id, inst.parent, Cardinality(DOMAIN db))

\* unique_together = ('denormalised_path', 'slug'): another row holds the pair.
UniqueViolation(db, x, row) ==
    \E y \in DOMAIN db :
        /\ y # x
        /\ db[y].denormalised_path = row.denormalised_path
        /\ db[y].slug = row.slug

\* super().save(): INSERT for a new instance, UPDATE for a stored one.
WriteRow(db, x, row) ==
    IF x \in DOMAIN db THEN [db EXCEPT ![x] = row]
    ELSE [y \in DOMAIN db \cup {x} |-> IF y = x THEN row ELSE db[y]]

RECURSIVE SetToSeq(_)
\* the ids of a set in ascending order
SetToSeq(S) ==
    IF S = {} THEN <<>>
    ELSE LET m == CHOOSE a \in S : \A b \in S : a <= b
         IN  <<m>> \o SetToSeq(S \ {m})

\* self.children.all()
Children(db, x) == {c \in DOMAIN db : db[c].parent = x}

RECURSIVE save(_, _, _, _, _)
RECURSIVE redenormalise_children_paths(_, _, _)

\* if not self.slug: self.slug = slugify(self.title, allow_unicode=True)
FillSlug(inst) ==
    IF inst.slug = <<>> THEN [inst EXCEPT !.slug = slugify(inst.title)]
    ELSE inst

\* Page.save on instance inst0, whose row is (or becomes) row x of the table.
\* Returns the table, the instance, and how the call ended: "ok",
\* "validation" (ValidationError), "integrity" (the unique constraint),
\* "hang" (the parent walk never ends) or "recursion" (the cascade descends
\* without end); fuel is the depth of cascade left before that.
save(db, x, inst0, force, fuel) ==
    LET inst1 == FillSlug(inst0)
        check == validate_noncyclic_hierarchy(db, inst1)
        scheduled == force \/ path_needs_redenormalising(inst1)
        inst2 == IF scheduled THEN denormalise_path(db, inst1) ELSE inst1
        inst == [inst2 EXCEPT !.id = x]
        row == RowOf(inst)
    IN  IF check = "raise"
        THEN [db |-> db, inst |-> inst1, status |-> "validation"]
        ELSE IF check = "hang"
        THEN [db |-> db, inst |-> inst1, status |-> "hang"]
        ELSE IF UniqueViolation(db, x, row)
        THEN [db |-> db, inst |-> inst2, status |-> "integrity"]
        ELSE IF scheduled
        THEN LET below == redenormalise_children_paths(
                              WriteRow(db, x, row),
                              SetToSeq(Children(db, x)), fuel)
             IN  [db |-> below.db, inst |-> inst, status |-> below.status]
        ELSE [db |-> WriteRow(db, x, row), inst |-> inst, status |-> "ok"]

\* for child in self.children.all(): child.save(redenormalise_path=True).
\* An exception in a child's save ends the loop and every caller's loop.
redenormalise_children_paths(db, kids, fuel) ==
    IF kids = <<>> THEN [db |-> db, status |-> "ok"]
    ELSE IF fuel = 0 THEN [db |-> db, status |-> "recursion"]
    ELSE LET c == Head(kids)
             r == save(db, c, PageFromDb(db, c), TRUE, fuel - 1)
         IN  IF r.status # "ok" THEN [db |-> r.db, status |-> r.status]
             ELSE redenormalise_children_paths(r.db, Tail(kids), fuel)

\* The depth of cascade after which Python gives up (RecursionError); the
\* model gives up one level below the deepest acyclic tree.
CascadeFuel(db) == Cardinality(DOMAIN db) + 1

(***************************************************************************)
(* Operations on the page tree, one request each.                          *)
(***************************************************************************)
\* the tables and variables no operation of a specification touches
RestAtRest ==
    /\ others = <<>>
    /\ txn = NoTxn
    /\ texts = <<>>
    /\ refs = <<>>
    /\ done = Quiet
    /\ store = NoStore
    /\ proc = NoProc

Init ==
    /\ pages = <<>>
    /\ last = Idle
    /\ held = NoInstance
    /\ blocks = <<>>
    /\ call = NoCall
    /\ RestAtRest

\* AddPageView / Page.objects.create(title=..., slug=..., parent=...)
CreatePage(title, slug, parent) ==
    /\ Cardinality(PageIds) < MaxPages
    /\ LET x == Cardinality(PageIds) + 1
           r == save(pages, x, NewPage(title, slug, parent), FALSE,
                     CascadeFuel(pages))
       IN  /\ pages' = r.db
           /\ last' = [op |-> "create", page |-> 0, arg |-> 0,
                       status |-> r.status]
    /\ UNCHANGED <<held, blockVars, restVars>>

\* MovePageView: the page is loaded, its parent set from the form, and saved.
MovePage(x, parent) ==
    /\ LET inst == [PageFromDb(pages, x) EXCEPT !.parent = parent]
           r == save(pages, x, inst, FALSE, CascadeFuel(pages))
       IN  /\ pages' = r.db
           /\ last' = [op |-> "move", page |-> x, arg |-> parent,
                       status |-> r.status]
    /\ UNCHANGED <<held, blockVars, restVars>>

\* The admin's change form: the slug field is edited and the page saved.
ChangeSlug(x, slug) ==
    /\ slug # pages[x].slug
    /\ LET inst == [PageFromDb(pages, x) EXCEPT !.slug = slug]
           r == save(pages, x, inst, FALSE, CascadeFuel(pages))
       IN  /\ pages' = r.db
           /\ last' = [op |-> "slug", page |-> 0, arg |-> 0,
                       status |-> r.status]
    /\ UNCHANGED <<held, blockVars, restVars>>

\* The admin's change form: the title field is edited and the page saved.
ChangeTitle(x, title) ==
    /\ title # pages[x].title
    /\ LET inst == [PageFromDb(pages, x) EXCEPT !.title = title]
           r == save(pages, x, inst, FALSE, CascadeFuel(pages))
       IN  /\ pages' = r.db
           /\ last' = [op |-> "title", page |-> 0, arg |-> 0,
                       status |-> r.status]
    /\ UNCHANGED <<held, blockVars, restVars>>

NextPages ==
    \/ \E t \in Titles, s \in SlugInputs, p \in {0} \cup PageIds :
           CreatePage(t, s, p)
    \/ \E x \in PageIds, p \in {0} \cup PageIds : MovePage(x, p)
    \/ \E x \in PageIds, s \in SlugInputs : ChangeSlug(x, s)
    \/ \E x \in PageIds, t \in Titles : ChangeTitle(x, t)

SpecPages == Init /\ [][NextPages]_vars

(***************************************************************************)
(* The same operations, with one Page instance that stays in memory: it is *)
(* loaded once and saved again and again, its parent reassigned (to a page *)
(* read from the table at that moment) before each save.  The requests in  *)
(* between move the other pages, never the page of the instance.           *)
(***************************************************************************)
\* page = Page.objects.get(pk=x)
HeldLoad(x) ==
    /\ held' = PageFromDb(pages, x)
    /\ last' = [op |-> "held_load", page |-> 0, arg |-> 0, status |-> "ok"]
    /\ UNCHANGED <<pages, blockVars, restVars>>

\* page.parent = <page q, or None>; page.save() on the instance in memory
HeldSave(parent) ==
    /\ held.id # 0
    /\ LET inst == [held EXCEPT !.parent = parent]
           r == save(pages, held.id, inst, FALSE, CascadeFuel(pages))
       IN  /\ pages' = r.db
           /\ held' = r.inst
           /\ last' = [op |-> "held_save", page |-> held.id, arg |-> parent,
                       status |-> r.status]
    /\ UNCHANGED <<blockVars, restVars>>

RECURSIVE ReachesUp(_, _, _)
\* page a is met on the way up from page x's parent
ReachesUp(a, x, fuel) ==
    /\ fuel > 0
    /\ pages[x].parent # 0
    /\ \/ pages[x].parent = a
       \/ ReachesUp(a, pages[x].parent, fuel - 1)

\* some stored page is met on the way up from its own parent
StoredCycle == \E x \in PageIds : ReachesUp(x, x, Cardinality(PageIds))

\* the stored paths and title lists are no longer than those of MaxPages
\* pages in one chain could be (a stale instance written back makes them grow)
WithinPathLen ==
    \A x \in PageIds :
        /\ Len(pages[x].denormalised_path) <= MaxPathLen
        /\ Len(pages[x].denormalised_titles) <= MaxPathLen

\* The saves are followed up to the first stored cycle and while the stored
\* paths are within MaxPathLen: a table beyond has no step here.
Followed == ~StoredCycle /\ WithinPathLen

NextHeld ==
    \/ /\ Followed
       /\ \E t \in HeldTitles, p \in {0} \cup PageIds : CreatePage(t, <<>>, p)
    \/ /\ Followed
       /\ \E x \in PageIds \ {held.id}, p \in {0} \cup PageIds : MovePage(x, p)
    \/ /\ Followed
       /\ \E x \in PageIds : HeldLoad(x)
    \/ /\ Followed
       /\ \E p \in {0} \cup PageIds : HeldSave(p)

SpecHeld == Init /\ [][NextHeld]_vars

(***************************************************************************)
(* The blocks of one page and their positions.  The rows are kept in the   *)
(* order of their positions, which the unique constraint keeps distinct.   *)
(***************************************************************************)
\* Python's round(n * tenths / 10): to the nearest integer, a tie to the
\* even one
RoundTenths(n, tenths) ==
    LET q == (n * tenths) \div 10
        r == (n * tenths) % 10
    IN  IF r > 5 \/ (r = 5 /\ q % 2 = 1) THEN q + 1 ELSE q

\* space = round(32767 * 0.8)
Space == RoundTenths(MaxPosition, 8)

\* position = round(32767 * 0.1)
StartPosition == RoundTenths(MaxPosition, 1)

\* gap_size = space // self.count()
GapSize(n) == Space \div n

\* the position the i-th block in position order is given
NewPosition(n, i) == StartPosition + (i - 1) * GapSize(n)

PositionsOf(rows) == {rows[j].position : j \in 1..Len(rows)}

\* block.save() for the i-th block: another row of the page holds the new
\* position, which is a row moved before (a gap of 0) or a row not yet moved
\* (the rows after i are those with a higher position than row i)
SaveCollides(rows, olds, i) ==
    \/ GapSize(Len(rows)) = 0 /\ i > 1
    \/ /\ NewPosition(Len(rows), i) \in olds
       /\ NewPosition(Len(rows), i) > rows[i].position

\* BlockQuerySet.redistribute_positions on all the blocks of the page: the
\* rows afterwards and how it ended.  An IntegrityError inside
\* transaction.atomic() leaves the rows as they were.
redistribute_positions(rows) ==
    LET n == Len(rows)
        olds == PositionsOf(rows)
    IN  IF n = 0 THEN [rows |-> rows, status |-> "ok"]
        ELSE IF \E i \in 1..n : SaveCollides(rows, olds, i)
        THEN [rows |-> rows, status |-> "integrity"]
        ELSE [rows |-> [i \in 1..n |->
                           [id |-> rows[i].id,
                            position |-> NewPosition(n, i)]],
              status |-> "ok"]

\* Page.get_first_position: the rows afterwards, how it ended, the value
\* returned and the redistributions done
get_first_position(rows) ==
    IF rows = <<>>
    THEN [rows |-> rows, status |-> "returned", result |-> FirstPosition,
          redistributed |-> 0]
    ELSE IF rows[1].position = 0
    THEN LET r == redistribute_positions(rows)
         IN  IF r.status # "ok"
             THEN [rows |-> rows, status |-> "raised", result |-> 0,
                   redistributed |-> 0]
             ELSE [rows |-> r.rows, status |-> "returned",
                   result |-> r.rows[1].position \div 2, redistributed |-> 1]
    ELSE [rows |-> rows, status |-> "returned",
          result |-> rows[1].position \div 2, redistributed |-> 0]

\* self.blocks.get(id=after): where the row is
IndexOf(rows, id) == CHOOSE i \in 1..Len(rows) : rows[i].id = id

IdsFrom(rows, k) == {rows[i].id : i \in k..Len(rows)}

LeastOf(S) == CHOOSE a \in S : \A b \in S : a <= b

\* blocks_after[:2], a query without an ORDER BY: the first two of the rows
\* from the k-th on, as the database finds them, by the primary key ("pk")
\* or by the index of the positions ("position")
FirstTwo(rows, k, plan) ==
    IF plan = "position" THEN <<rows[k], rows[k + 1]>>
    ELSE LET first == LeastOf(IdsFrom(rows, k))
             second == LeastOf(IdsFrom(rows, k) \ {first})
         IN  <<rows[IndexOf(rows, first)], rows[IndexOf(rows, second)]>>

ScanPlans == {"pk", "position"}

\* the ids an anchor is drawn from: every block of an enumerated page, the
\* last two of a larger one
Anchors(rows) ==
    IF Len(rows) <= MaxBlocks + 1 THEN IdsFrom(rows, 1)
    ELSE IdsFrom(rows, Len(rows) - 1)

\* One activation of Page.get_position_after(after) ends in `out`: it
\* returns, raises, or redistributes and calls itself.
Activation(out) ==
    \/ /\ out.status = "retry"
       /\ call.redistributions < MaxRedistributions
       /\ blocks' = out.rows
       /\ call' = [call EXCEPT !.after = out.after,
                               !.redistributions = @ + 1]
    \/ /\ out.status = "retry"
       /\ call.redistributions >= MaxRedistributions
       /\ blocks' = out.rows
       /\ call' = [call EXCEPT !.pc = "recursion", !.after = out.after]
    \/ /\ out.status = "returned"
       /\ blocks' = out.rows
       /\ call' = [call EXCEPT !.pc = "returned", !.result = out.result,
                               !.redistributions = @ + out.redistributed]
    \/ /\ out.status = "raised"
       /\ blocks' = out.rows
       /\ call' = [call EXCEPT !.pc = "raised"]

\* self.blocks.redistribute_positions(); return self.get_position_after(id)
RedistributeAndRetry(rows, id) ==
    LET r == redistribute_positions(rows)
    IN  IF r.status # "ok"
        THEN [rows |-> rows, status |-> "raised", after |-> id,
              result |-> 0, redistributed |-> 0]
        ELSE [rows |-> r.rows, status |-> "retry", after |-> id,
              result |-> 0, redistributed |-> 1]

\* a redistribution before the value is returned
ReturnsRedistributed(rows, value) ==
    [rows |-> redistribute_positions(rows).rows, status |-> "returned",
     after |-> 0, result |-> value, redistributed |-> 1]

Returns(rows, value) ==
    [rows |-> rows, status |-> "returned", after |-> 0, result |-> value,
     redistributed |-> 0]

\* Page.get_position_after(after), one activation, with the plan the
\* database follows for blocks_after[:2]
get_position_after(rows, after, plan) ==
    IF after = 0
    THEN LET f == get_first_position(rows)
         IN  [rows |-> f.rows, status |-> f.status, after |-> 0,
              result |-> f.result, redistributed |-> f.redistributed]
    ELSE LET k == IndexOf(rows, after)
             count == Len(rows) - k + 1
         IN  IF count = 1
             THEN IF rows[k].position = MaxPosition
                  THEN RedistributeAndRetry(rows, after)
                  ELSE Returns(rows, rows[k].position + StepAfterLast)
             ELSE LET two == FirstTwo(rows, k, plan)
                  IN  IF two[2].position - two[1].position < 2
                      THEN RedistributeAndRetry(rows, two[1].id)
                      ELSE Returns(rows, (two[1].position
                                          + two[2].position) \div 2)

\* AddBlockView.form_valid asks for a position: parent_page
\* .get_position_after(after), after a block of the page or None (0)
Request(after, plan) ==
    /\ call.pc # "running"
    /\ call' = [op |-> "get_position_after", pc |-> "running",
                req |-> after,
                was |-> IF after = 0 THEN 0
                        ELSE blocks[IndexOf(blocks, after)].position,
                after |-> after, plan |-> plan, redistributions |-> 0,
                result |-> 0]
    /\ UNCHANGED <<pageVars, blocks, restVars>>

Invoke ==
    /\ call.pc = "running"
    /\ Activation(get_position_after(blocks, call.after, call.plan))
    /\ UNCHANGED <<pageVars, restVars>>

\* the rows with one more row, in the order of the positions
Inserted(rows, row) ==
    LET k == Cardinality({j \in 1..Len(rows) :
                             rows[j].position < row.position})
    IN  [i \in 1..Len(rows) + 1 |->
            IF i <= k THEN rows[i]
            ELSE IF i = k + 1 THEN row
            ELSE rows[i - 1]]

\* AddBlockView.form_valid: Block.objects.create(parent_page=..., position=
\* the position returned); the database refuses a position that a block of
\* the page holds or that is out of the column's range.
CreateBlock ==
    /\ call.op = "get_position_after"
    /\ call.pc = "returned"
    /\ Len(blocks) < MaxBlocks
    /\ IF call.result \in PositionsOf(blocks) \/ call.result > MaxPosition
       THEN /\ blocks' = blocks
            /\ call' = [NoCall EXCEPT !.op = "create", !.pc = "raised"]
       ELSE /\ blocks' = Inserted(blocks, [id |-> Len(blocks) + 1,
                                           position |-> call.result])
            /\ call' = [NoCall EXCEPT !.op = "create"]
    /\ UNCHANGED <<pageVars, restVars>>

\* page.blocks.redistribute_positions(), called on its own
Redistribute ==
    /\ call.pc # "running"
    /\ blocks # <<>>
    /\ LET r == redistribute_positions(blocks)
       IN  /\ blocks' = r.rows
           /\ call' = [NoCall EXCEPT
                          !.op = "redistribute_positions",
                          !.pc = IF r.status = "ok" THEN "returned"
                                 ELSE "raised",
                          !.redistributions = IF r.status = "ok" THEN 1
                                              ELSE 0]
    /\ UNCHANGED <<pageVars, restVars>>

\* the positions the blocks of the enumerated pages are created at
PositionSamples == {0, 1, 2, 100, 3277, 16384, 32700, 32767}

RECURSIVE Ascending(_)
\* the positions of a set in ascending order
Ascending(S) ==
    IF S = {} THEN <<>>
    ELSE <<LeastOf(S)>> \o Ascending(S \ {LeastOf(S)})

\* the pages of at most MaxBlocks blocks at sampled positions, created in
\* any order (ids is the id of each block, in position order)
SmallLayouts ==
    UNION {
        {[i \in 1..Cardinality(S) |->
             [id |-> ids[i], position |-> Ascending(S)[i]]] :
         ids \in Permutations(1..Cardinality(S))} :
        S \in {T \in SUBSET PositionSamples : Cardinality(T) <= MaxBlocks}}

\* the least number of blocks for which gap_size is below 2
Crowded == (Space \div 2) + 1

\* a page of that many blocks, created one after the other at the top of
\* the range
CrowdedLayout ==
    [i \in 1..Crowded |-> [id |-> i, position |-> MaxPosition - Crowded + i]]

InitBlocks ==
    /\ pages = <<>>
    /\ last = Idle
    /\ held = NoInstance
    /\ blocks \in SmallLayouts \cup {CrowdedLayout}
    /\ call = NoCall
    /\ RestAtRest

NextBlocks ==
    \/ \E a \in {0} \cup Anchors(blocks), plan \in ScanPlans : Request(a, plan)
    \/ Invoke
    \/ CreateBlock
    \/ Redistribute

SpecBlocks == InitBlocks /\ [][NextBlocks]_vars

(***************************************************************************)
(* redistribute_positions on any queryset of blocks, with a second page,   *)
(* and save by save: the rows are written inside transaction.atomic(), so  *)
(* the tables other connections read change when the block is left.        *)
(***************************************************************************)
\* the rows of page p, with their page
OnPage(p, rows) ==
    [i \in 1..Len(rows) |->
        [page |-> p, id |-> rows[i].id, position |-> rows[i].position]]

RECURSIVE ByPosition(_)
\* order_by('position'): the rows in the order of their positions
ByPosition(rows) ==
    IF rows = <<>> THEN <<>>
    ELSE LET least == CHOOSE i \in 1..Len(rows) :
                          \A j \in 1..Len(rows) :
                              \/ rows[i].position < rows[j].position
                              \/ rows[i].position = rows[j].position /\ i <= j
         IN  <<rows[least]>>
             \o ByPosition([k \in 1..Len(rows) - 1 |->
                               IF k < least THEN rows[k] ELSE rows[k + 1]])

\* the rows of the queryset that selects sel1 on the first page and sel2 on
\* the second
SelectedRows(sel1, sel2) ==
    SelectSeq(OnPage(1, blocks), LAMBDA r : r.id \in sel1)
    \o SelectSeq(OnPage(2, others), LAMBDA r : r.id \in sel2)

\* set(self.values_list('parent_page', flat=True))
parent_pages(sel1, sel2) ==
    (IF sel1 # {} THEN {1} ELSE {}) \cup (IF sel2 # {} THEN {2} ELSE {})

\* a check that lets every selection pass
NeverSpans(sel1, sel2) == FALSE

\* len(parent_pages) > 1
SpansPages(sel1, sel2) == Cardinality(parent_pages(sel1, sel2)) > 1

\* a comparison of the counts that never finds a difference
NeverPartial(p, sel1, sel2) == FALSE

\* self[0].parent_page.blocks.count() != self.count(), self[0] on page p
NotAllBlocks(p, sel1, sel2) ==
    Len(IF p = 1 THEN blocks ELSE others)
        # Cardinality(sel1) + Cardinality(sel2)

\* the call ends before anything is written
EndsAt(pc, sel1, sel2) ==
    /\ txn' = [NoTxn EXCEPT !.sel1 = sel1, !.sel2 = sel2]
    /\ call' = [NoCall EXCEPT !.op = "redistribute_positions", !.pc = pc]

\* BlockQuerySet.redistribute_positions up to `with transaction.atomic()`
QuerysetCall(sel1, sel2) ==
    /\ txn.pc = "closed"
    /\ IF sel1 \cup sel2 = {} THEN EndsAt("returned", sel1, sel2)
       ELSE IF SpansPages(sel1, sel2) THEN EndsAt("usage", sel1, sel2)
       ELSE \E p \in parent_pages(sel1, sel2) :
                IF NotAllBlocks(p, sel1, sel2)
                THEN EndsAt("usage", sel1, sel2)
                ELSE /\ txn' = [pc |-> "open", sel1 |-> sel1, sel2 |-> sel2,
                                rows |-> ByPosition(SelectedRows(sel1, sel2)),
                                next |-> 1]
                     /\ call' = [NoCall EXCEPT
                                    !.op = "redistribute_positions",
                                    !.pc = "running"]
    /\ UNCHANGED <<pageVars, blocks, others, texts, refs, done, store, proc>>

\* the rows of page p after the rows `written` are written to the table
WrittenBack(p, rows, written) ==
    ByPosition([i \in 1..Len(rows) |->
        IF \E j \in 1..Len(written) :
               written[j].page = p /\ written[j].id = rows[i].id
        THEN [rows[i] EXCEPT !.position =
                 written[CHOOSE j \in 1..Len(written) :
                             written[j].page = p
                             /\ written[j].id = rows[i].id].position]
        ELSE rows[i]])

\* unique_together (parent_page, position) at block.save() inside the
\* transaction: another row of the page, as the transaction sees the page,
\* is at `position`
PositionTaken(p, id, position) ==
    \E r \in {WrittenBack(1, OnPage(1, blocks), txn.rows)[k] :
                  k \in 1..Len(blocks)}
             \cup {WrittenBack(2, OnPage(2, others), txn.rows)[k] :
                      k \in 1..Len(others)} :
        r.page = p /\ r.id # id /\ r.position = position

\* saves that are committed one by one, as they are outside a transaction
Autocommitted(committed, written) == written

\* what the other connections read while the transaction is open: the rows
\* as committed, not the rows as the transaction has written them
InAtomic(committed, written) == committed

\* block.position = position; block.save(); position += gap_size
SaveRow ==
    /\ txn.pc = "open"
    /\ txn.next <= Len(txn.rows)
    /\ LET i == txn.next
           row == txn.rows[i]
           position == NewPosition(Len(txn.rows), i)
           rows == [txn.rows EXCEPT ![i].position = position]
       IN  IF PositionTaken(row.page, row.id, position)
           THEN \* IntegrityError: the atomic block rolls back and re-raises
                /\ txn' = [txn EXCEPT !.pc = "closed"]
                /\ call' = [call EXCEPT !.pc = "raised"]
                /\ UNCHANGED <<blocks, others>>
           ELSE /\ txn' = [txn EXCEPT !.rows = rows, !.next = i + 1]
                /\ call' = call
                /\ blocks' = InAtomic(blocks, WrittenBack(1, blocks, rows))
                /\ others' = InAtomic(others, WrittenBack(2, others, rows))
    /\ UNCHANGED <<pageVars, texts, refs, done, store, proc>>

\* the atomic block is left: commit, and `return self`
Commit ==
    /\ txn.pc = "open"
    /\ txn.next > Len(txn.rows)
    /\ blocks' = WrittenBack(1, blocks, txn.rows)
    /\ others' = WrittenBack(2, others, txn.rows)
    /\ txn' = [txn EXCEPT !.pc = "closed"]
    /\ call' = [call EXCEPT !.pc = "returned", !.redistributions = 1]
    /\ UNCHANGED <<pageVars, texts, refs, done, store, proc>>

\* the positions of the blocks of the two pages
QuerysetPositions == {0, 100, 3277, 12015}
SecondPositions == {0, 3277}

\* the blocks ids .. ids + n - 1 at the positions of S
LayoutAt(S, ids) ==
    [i \in 1..Cardinality(S) |->
        [id |-> ids + i - 1, position |-> Ascending(S)[i]]]

InitRedistribute ==
    /\ pages = <<>>
    /\ last = Idle
    /\ held = NoInstance
    /\ call = NoCall
    /\ \E S \in SUBSET QuerysetPositions :
           Cardinality(S) <= MaxBlocks /\ blocks = LayoutAt(S, 1)
    /\ \E S \in SUBSET SecondPositions : others = LayoutAt(S, MaxBlocks + 1)
    /\ txn = NoTxn
    /\ texts = <<>>
    /\ refs = <<>>
    /\ done = Quiet
    /\ store = NoStore
    /\ proc = NoProc

NextRedistribute ==
    \/ \E sel1 \in SUBSET IdsFrom(blocks, 1),
          sel2 \in SUBSET IdsFrom(others, 1) : QuerysetCall(sel1, sel2)
    \/ SaveRow
    \/ Commit

SpecRedistribute == InitRedistribute /\ [][NextRedistribute]_vars

(***************************************************************************)
(* Reference hooks in the content of text blocks.  A content is a sequence *)
(* of pieces: the backslash, the opening of a hook "!ref(", a digit, the   *)
(* closing parenthesis, and "x" for any other character.                   *)
(***************************************************************************)
Backslash == "backslash"
Hook == "!ref("
Close == ")"
Digits == {"0", "1", "2"}
Pieces == {Backslash, Hook, "0", "1", Close, "x"}

RECURSIVE DigitsEnd(_, _)
\* \d+ from the i-th piece on, greedy: the place after the run of digits
DigitsEnd(text, i) ==
    IF i > Len(text) \/ text[i] \notin Digits THEN i
    ELSE DigitsEnd(text, i + 1)

\* a lookbehind that lets every hook pass
AnyBefore(text, i) == TRUE

\* (?<!\\) before the i-th piece
NotEscaped(text, i) == i = 1 \/ text[i - 1] # Backslash

\* generic_hook_re matched at the i-th piece: the place of the closing
\* parenthesis, 0 without a match
MatchAt(text, i) ==
    IF text[i] = Hook /\ NotEscaped(text, i)
    THEN LET j == DigitsEnd(text, i + 1)
         IN  IF j > i + 1 /\ j <= Len(text) /\ text[j] = Close THEN j ELSE 0
    ELSE 0

RECURSIVE FindAll(_, _)
\* set(generic_hook_re.findall(content)) from the i-th piece on: the groups
\* `ref` of the matches, left to right, each search after the match before
FindAll(text, i) ==
    IF i > Len(text) THEN {}
    ELSE LET j == MatchAt(text, i)
         IN  IF j = 0 THEN FindAll(text, i + 1)
             ELSE {SubSeq(text, i + 1, j - 1)} \cup FindAll(text, j + 1)

\* Reference.find_references(content): a set of strings of digits
find_references(content) == FindAll(content, 1)

RECURSIVE IntOf(_)
\* int(d), as id__in does with each string
IntOf(d) ==
    IF d = <<>> THEN 0
    ELSE 10 * IntOf(SubSeq(d, 1, Len(d) - 1))
         + (CHOOSE n \in 0..9 : ToString(n) = d[Len(d)])

RECURSIVE TextsUpTo(_)
\* every content of at most n pieces
TextsUpTo(n) ==
    IF n = 0 THEN {<<>>}
    ELSE LET shorter == TextsUpTo(n - 1)
         IN  shorter \cup {Append(t, c) : t \in shorter, c \in Pieces}

\* find_references applied to a content
FindReferences ==
    /\ done.op = "none"
    /\ done' = [done EXCEPT !.op = "find_references",
                            !.named = find_references(done.content)]
    /\ UNCHANGED <<pageVars, blockVars, others, txn, texts, refs, store, proc>>

InitHooks ==
    /\ pages = <<>>
    /\ last = Idle
    /\ held = NoInstance
    /\ blocks = <<>>
    /\ call = NoCall
    /\ others = <<>>
    /\ txn = NoTxn
    /\ texts = <<>>
    /\ refs = <<>>
    /\ done \in {[Quiet EXCEPT !.content = t] : t \in TextsUpTo(MaxTextLen)}
    /\ store = NoStore
    /\ proc = NoProc

NextHooks == FindReferences

SpecHooks == InitHooks /\ [][NextHooks]_vars

(***************************************************************************)
(* Text blocks, References and the deletion of pages.  texts maps the id   *)
(* of a text block to its page, its published flag and its content; refs   *)
(* is the Reference table in the order of the ids, a deleted row being     *)
(* Gone (ids are not given out again).                                     *)
(***************************************************************************)
Gone == [containing_block |-> 0, referenced_block |-> 0, referenced_page |-> 0]

Stored(R) == {r \in DOMAIN R : R[r] # Gone}

Remove(R, rs) == [r \in DOMAIN R |-> IF r \in rs THEN Gone ELSE R[r]]

BlockIds == DOMAIN texts

\* a check that only asks for some target
SomeTarget(referenced_block, referenced_page) ==
    referenced_block # 0 \/ referenced_page # 0

\* Reference._validate passes: (referenced_block, referenced_page).count(None)
\* is 1, with 0 for None
OneTarget(referenced_block, referenced_page) ==
    Cardinality({k \in {"block", "page"} :
        IF k = "block" THEN referenced_block = 0
        ELSE referenced_page = 0}) = 1

\* '1' == 1 in Python: a string never equals an integer
StrEqualsInt(d, n) == FALSE

Passed == [status |-> "ok", named |-> {}, singular |-> FALSE]

\* a validation that lets every content pass
validate_nothing(T, R, b, content) == Passed

\* Block.validate_references(content) on block b over the tables T and R;
\* <<>> stands for both None and ''
validate_references(T, R, b, content) ==
    LET text == IF content # <<>> THEN content ELSE T[b].content
        reference_ids == find_references(text)
        references ==
            {r \in Stored(R) :
                /\ r \in {IntOf(d) : d \in reference_ids}
                /\ R[r].containing_block = b}
    IN  IF Cardinality(references) # Cardinality(reference_ids)
        THEN LET missing_ids ==
                     {d \in reference_ids :
                         \A r \in references : ~StrEqualsInt(d, r)}
             IN  IF missing_ids = {} THEN Passed
                 ELSE [status |-> "validation", named |-> missing_ids,
                       singular |-> Cardinality(missing_ids) = 1]
        ELSE Passed

\* AddReferenceView: ReferenceForm.save sets the containing block and
\* Reference.save validates before the row is written
AddReference(b, referenced_block, referenced_page) ==
    /\ Len(refs) < MaxRefs
    /\ b \in BlockIds
    /\ IF OneTarget(referenced_block, referenced_page)
       THEN /\ refs' = Append(refs,
                  [containing_block |-> b,
                   referenced_block |-> referenced_block,
                   referenced_page |-> referenced_page])
            /\ done' = [Quiet EXCEPT !.op = "add_reference", !.block = b,
                                     !.referenced_block = referenced_block,
                                     !.referenced_page = referenced_page,
                                     !.status = "ok"]
       ELSE /\ refs' = refs
            /\ done' = [Quiet EXCEPT !.op = "add_reference", !.block = b,
                                     !.referenced_block = referenced_block,
                                     !.referenced_page = referenced_page,
                                     !.status = "validation"]
    /\ UNCHANGED <<pageVars, blockVars, others, txn, texts, store, proc>>

\* DeleteReferenceView
DeleteReference(r) ==
    /\ r \in Stored(refs)
    /\ refs' = Remove(refs, {r})
    /\ done' = [Quiet EXCEPT !.op = "delete_reference",
                             !.block = refs[r].containing_block,
                             !.status = "ok"]
    /\ UNCHANGED <<pageVars, blockVars, others, txn, texts, store, proc>>

\* block.validate_references(content=c)
ValidateReferences(b, c) ==
    /\ b \in BlockIds
    /\ LET v == validate_references(texts, refs, b, c)
       IN  done' = [Quiet EXCEPT !.op = "validate_references", !.block = b,
                                 !.content = c, !.status = v.status,
                                 !.named = v.named,
                                 !.singular = v.singular]
    /\ UNCHANGED <<pageVars, blockVars, others, txn, texts, refs, store, proc>>

\* EditBlockView with TextBlockForm: clean validates the submitted content,
\* a valid form is saved
EditBlock(b, c) ==
    /\ b \in BlockIds
    /\ c # <<>>
    /\ LET v == validate_references(texts, refs, b, c)
       IN  /\ texts' = IF v.status = "ok"
                       THEN [texts EXCEPT ![b].content = c]
                       ELSE texts
           /\ done' = [Quiet EXCEPT !.op = "edit", !.block = b,
                                    !.content = c, !.status = v.status,
                                    !.named = v.named,
                                    !.singular = v.singular]
    /\ UNCHANGED <<pageVars, blockVars, others, txn, refs, store, proc>>

\* block.publish()
Publish(b) ==
    /\ b \in BlockIds
    /\ LET v == validate_references(texts, refs, b, <<>>)
       IN  /\ texts' = IF v.status = "ok"
                       THEN [texts EXCEPT ![b].published = TRUE]
                       ELSE texts
           /\ done' = [Quiet EXCEPT !.op = "publish", !.block = b,
                                    !.status = v.status, !.named = v.named,
                                    !.singular = v.singular]
    /\ UNCHANGED <<pageVars, blockVars, others, txn, refs, store, proc>>

\* a selection that finds no Reference
from_nowhere(R) == {}

\* a selection that finds every Reference
from_anywhere(R) == Stored(R)

\* the References of R whose containing block is unpublished
from_unpublished(R) ==
    {r \in Stored(R) : ~texts[R[r].containing_block].published}

\* no block goes with its page
NoBlocksOf(p) == {}

BlocksOf(p) == {b \in BlockIds : texts[b].page = p}

\* page.delete(): the References from unpublished blocks to the page and to
\* its blocks are deleted one by one, then the page is collected for
\* deletion with its blocks and their References; a child page or a
\* Reference left pointing at the page or a block of it protects it
DeletePage(p) ==
    /\ p \in PageIds
    /\ LET mine == BlocksOf(p)
           R1 == Remove(refs, {r \in from_unpublished(refs) :
                                  refs[r].referenced_page = p})
           R2 == Remove(R1, {r \in from_unpublished(R1) :
                                R1[r].referenced_block \in mine})
           protected ==
               \/ \E c \in PageIds : pages[c].parent = p
               \/ \E r \in Stored(R2) :
                      \/ R2[r].referenced_page = p
                      \/ R2[r].referenced_block \in mine
       IN  IF protected
           THEN /\ refs' = R2
                /\ UNCHANGED <<pages, texts>>
                /\ done' = [Quiet EXCEPT !.op = "delete_page", !.page = p,
                                         !.status = "protected"]
           ELSE /\ refs' = Remove(R2, {r \in Stored(R2) :
                                  R2[r].containing_block \in mine})
                /\ pages' = [x \in PageIds \ {p} |-> pages[x]]
                /\ texts' = [b \in BlockIds \ mine |-> texts[b]]
                /\ done' = [Quiet EXCEPT !.op = "delete_page", !.page = p,
                                         !.status = "ok"]
    /\ UNCHANGED <<last, held, blockVars, others, txn, store, proc>>

\* DeleteBlockView: block.delete() collects the block with the References
\* it contains; a Reference that points at the block protects it
DeleteBlock(b) ==
    /\ b \in BlockIds
    /\ IF \E r \in Stored(refs) : refs[r].referenced_block = b
       THEN /\ UNCHANGED <<texts, refs>>
            /\ done' = [Quiet EXCEPT !.op = "delete_block", !.block = b,
                                     !.status = "protected"]
       ELSE /\ refs' = Remove(refs, {r \in Stored(refs) :
                                  refs[r].containing_block = b})
            /\ texts' = [x \in BlockIds \ {b} |-> texts[x]]
            /\ done' = [Quiet EXCEPT !.op = "delete_block", !.block = b,
                                     !.status = "ok"]
    /\ UNCHANGED <<pageVars, blockVars, others, txn, store, proc>>

\* the contents submitted in the runs
Contents ==
    {<<Hook, "1", Close>>,
     <<Backslash, Hook, "1", Close>>,
     <<Hook, "1", Close, "x", Hook, "2", Close>>,
     <<Hook, "0", "1", Close, Hook, "1", Close>>}

\* two top-level pages, and a page with a child page
TwoPages ==
    save(save(<<>>, 1, NewPage(<<"A">>, <<>>, 0), FALSE, 1).db,
         2, NewPage(<<"B">>, <<>>, 0), FALSE, 1).db

PageAndChild ==
    save(save(<<>>, 1, NewPage(<<"A">>, <<>>, 0), FALSE, 1).db,
         2, NewPage(<<"B">>, <<>>, 1), FALSE, 1).db

\* each page with one text block, as AddBlockView and cast_to leave it:
\* unpublished, without content
InitContent ==
    /\ pages \in {TwoPages, PageAndChild}
    /\ last = Idle
    /\ held = NoInstance
    /\ blocks = <<>>
    /\ call = NoCall
    /\ others = <<>>
    /\ txn = NoTxn
    /\ texts = [b \in {1, 2} |->
                   [page |-> b, published |-> FALSE, content |-> <<>>]]
    /\ refs = <<>>
    /\ done = Quiet
    /\ store = NoStore
    /\ proc = NoProc

NextContent ==
    \/ \E b \in BlockIds, rb \in {0} \cup BlockIds, rp \in {0} \cup PageIds :
           AddReference(b, rb, rp)
    \/ \E r \in Stored(refs) : DeleteReference(r)
    \/ \E b \in BlockIds, c \in Contents \cup {<<>>} : ValidateReferences(b, c)
    \/ \E b \in BlockIds, c \in Contents : EditBlock(b, c)
    \/ \E b \in BlockIds : Publish(b)
    \/ \E p \in PageIds : DeletePage(p)
    \/ \E b \in BlockIds : DeleteBlock(b)

SpecContent == InitContent /\ [][NextContent]_vars

(***************************************************************************)
(* cast_to: a generic block is made a text block in place.  store.block is *)
(* the cms_block table of one page with every column, store.textblock the  *)
(* cms_textblock table; proc is the request that casts: the instance it    *)
(* loaded and how far it is.  Other requests redistribute the page's       *)
(* blocks in between.                                                      *)
(***************************************************************************)
CastIds == DOMAIN store.block

\* Block.objects.get(id=b): the class the polymorphic lookup returns
TypeOf(db, b) ==
    IF db.block[b].polymorphic_ctype = "block" THEN "Block"
    ELSE IF b \in DOMAIN db.textblock THEN "TextBlock"
    ELSE "none"

\* another block of the page holds the position: unique_together
\* (parent_page, position)
PositionHeld(db, b, row) ==
    \E x \in DOMAIN db.block \ {b} :
        /\ db.block[x].parent_page = row.parent_page
        /\ db.block[x].position = row.position

\* get_object: the block is read
CastLoad(b) ==
    /\ proc.pc \in {"idle", "returned", "raised"}
    /\ b \in CastIds
    /\ proc' = [op |-> "cast_to", pc |-> "loaded", id |-> b,
                type |-> TypeOf(store, b), inst |-> store.block[b],
                before |-> store.block[b], written |-> store.block[b],
                result |-> [id |-> 0, type |-> "none",
                            row |-> store.block[b]]]
    /\ UNCHANGED <<pageVars, blockVars, others, txn, texts, refs, done,
                   store>>

\* a primary key of its own for the child
NewPk(db, id) == Cardinality(DOMAIN db.block) + 1

\* setattr(child_instance, 'block_ptr_id', self.pk)
PtrId(db, id) == id

\* the fields that are copied: all but id and polymorphic_ctype
ChildRow(inst) == [inst EXCEPT !.polymorphic_ctype = "textblock"]

\* cast_to up to self.save(): the base row is written with the instance's
\* values and the content type of the instance's class
CastSaveBase ==
    /\ proc.pc = "loaded"
    /\ proc.type = "Block"
    /\ LET b == proc.id
           row == [proc.inst EXCEPT !.polymorphic_ctype = "block"]
       IN  IF PositionHeld(store, b, row)
           THEN /\ store' = store
                /\ proc' = [proc EXCEPT !.pc = "raised"]
           ELSE /\ store' = [store EXCEPT !.block[b] = row]
                /\ proc' = [proc EXCEPT !.pc = "base_saved",
                                        !.before = store.block[b],
                                        !.written = row]
    /\ UNCHANGED <<pageVars, blockVars, others, txn, texts, refs, done>>

\* child_instance.save(): the base row and the cms_textblock row are written
\* in the transaction of a save with parents
CastSaveChild ==
    /\ proc.pc = "base_saved"
    /\ LET b == PtrId(store, proc.id)
           row == ChildRow(proc.inst)
       IN  IF b \in DOMAIN store.block /\ PositionHeld(store, b, row)
           THEN /\ store' = store
                /\ proc' = [proc EXCEPT !.pc = "raised"]
           ELSE /\ store' =
                       [block |-> WriteRow(store.block, b, row),
                        textblock |-> WriteRow(store.textblock, b,
                                               [content |-> <<>>])]
                /\ proc' = [proc EXCEPT
                               !.pc = "returned",
                               !.result = [id |-> b, type |-> "TextBlock",
                                           row |-> row]]
    /\ UNCHANGED <<pageVars, blockVars, others, txn, texts, refs, done>>

\* child_instance.save() raises a database error: its own transaction is
\* rolled back
CastChildFails ==
    /\ proc.pc = "base_saved"
    /\ store' = store
    /\ proc' = [proc EXCEPT !.pc = "raised"]
    /\ UNCHANGED <<pageVars, blockVars, others, txn, texts, refs, done>>

\* another request: page.blocks.redistribute_positions()
RedistributeStored ==
    /\ LET rows == ByPosition([i \in 1..Cardinality(CastIds) |->
                      [id |-> SetToSeq(CastIds)[i],
                       position |-> store.block[SetToSeq(CastIds)[i]].position]])
           r == redistribute_positions(rows)
       IN  /\ r.status = "ok"
           /\ store' = [store EXCEPT !.block =
                  [b \in CastIds |->
                      [store.block[b] EXCEPT !.position =
                          r.rows[IndexOf(r.rows, b)].position]]]
           /\ store' # store
    /\ UNCHANGED <<pageVars, blockVars, others, txn, texts, refs, done, proc>>

\* the positions of the blocks before the runs
CastPositions == {0, 100, 3277, 16384}

\* a page with two generic blocks, unpublished, and the References of the
\* first: one it contains and one that points at it
InitCast ==
    /\ pages = <<>>
    /\ last = Idle
    /\ held = NoInstance
    /\ blocks = <<>>
    /\ call = NoCall
    /\ others = <<>>
    /\ txn = NoTxn
    /\ texts = <<>>
    /\ refs = <<[containing_block |-> 1, referenced_block |-> 2,
                 referenced_page |-> 0],
                [containing_block |-> 2, referenced_block |-> 1,
                 referenced_page |-> 0]>>
    /\ done = Quiet
    /\ \E p1 \in CastPositions, p2 \in CastPositions, pub \in BOOLEAN :
           /\ p1 < p2
           /\ store = [block |->
                          <<[parent_page |-> 1, position |-> p1,
                             published |-> pub, created |-> 1,
                             polymorphic_ctype |-> "block"],
                            [parent_page |-> 1, position |-> p2,
                             published |-> FALSE, created |-> 2,
                             polymorphic_ctype |-> "block"]>>,
                       textblock |-> <<>>]
    /\ proc = [op |-> "cast_to", pc |-> "idle"]

NextCast ==
    \/ \E b \in CastIds : CastLoad(b)
    \/ CastSaveBase
    \/ CastSaveChild
    \/ CastChildFails
    \/ RedistributeStored

SpecCast == InitCast /\ [][NextCast]_vars

(***************************************************************************)
(* Reading the page tree: URLs, breadcrumbs and the sidebar.  A read       *)
(* leaves in proc the page, how it ended and what it returned.             *)
(***************************************************************************)
\* django.urls.reverse of cms:path_page (with a path) and cms:path_page_root:
\* <path:path> and <slug:slug> match no empty string
NoReverseMatch == <<"NoReverseMatch">>

reverse(name, path, slug) ==
    IF slug = <<>> \/ (name = "path_page" /\ path = <<>>) THEN NoReverseMatch
    ELSE IF name = "path_page" THEN <<"/">> \o path \o <<"/">> \o slug \o <<"/">>
    ELSE <<"/">> \o slug \o <<"/">>

\* Page.get_absolute_url
get_absolute_url(db, x) ==
    IF db[x].parent = 0 THEN reverse("path_page_root", <<>>, db[x].slug)
    ELSE reverse("path_page", db[x].denormalised_path, db[x].slug)

\* str.split(sep) and str.rsplit(sep, 1) on the model's strings
RECURSIVE Split(_, _)
Split(str, sep) ==
    IF \A i \in 1..Len(str) : str[i] # sep THEN <<str>>
    ELSE LET k == CHOOSE i \in 1..Len(str) :
                      str[i] = sep /\ \A j \in 1..i - 1 : str[j] # sep
         IN  <<SubSeq(str, 1, k - 1)>> \o Split(SubSeq(str, k + 1, Len(str)), sep)

RSplitOnce(str, sep) ==
    IF \A i \in 1..Len(str) : str[i] # sep THEN <<str>>
    ELSE LET k == CHOOSE i \in 1..Len(str) :
                      str[i] = sep /\ \A j \in i + 1..Len(str) : str[j] # sep
         IN  <<SubSeq(str, 1, k - 1), SubSeq(str, k + 1, Len(str))>>

\* create_crumb(path, slug, title)
create_crumb(path, slug, title) ==
    [title |-> title,
     url |-> reverse(IF path # <<>> THEN "path_page" ELSE "path_page_root",
                     path, slug)]

RECURSIVE Crumbs(_, _)
\* the while loop of get_breadcrumbs: one crumb for each title left
Crumbs(path, titles) ==
    IF titles = <<>> THEN <<>>
    ELSE LET parts == RSplitOnce(path, "/")
             slug == parts[Len(parts)]
             rest == IF Len(parts) = 2 THEN parts[1] ELSE <<>>
         IN  <<create_crumb(rest, slug, titles[Len(titles)])>>
             \o Crumbs(rest, SubSeq(titles, 1, Len(titles) - 1))

\* Page.get_breadcrumbs
get_breadcrumbs(db, x) ==
    LET titles == IF db[x].denormalised_titles # <<>>
                  THEN Split(db[x].denormalised_titles, "\n")
                  ELSE <<>>
    IN  <<create_crumb(db[x].denormalised_path, db[x].slug, db[x].title)>>
        \o Crumbs(db[x].denormalised_path, titles)

RECURSIVE get_parents(_, _, _)
\* Page.get_parents: the parent first, the top-level ancestor last
get_parents(db, x, fuel) ==
    IF db[x].parent = 0 \/ fuel = 0 THEN <<>>
    ELSE <<db[x].parent>> \o get_parents(db, db[x].parent, fuel - 1)

\* the place of a character in the collation of the titles (code points)
CharRank(c) ==
    IF c = "!" THEN 33 ELSE IF c = "A" THEN 65 ELSE IF c = "B" THEN 66
    ELSE IF c = "a" THEN 97 ELSE IF c = "b" THEN 98 ELSE 0

RECURSIVE TitleBefore(_, _)
\* s sorts before t
TitleBefore(s, t) ==
    IF t = <<>> THEN FALSE
    ELSE IF s = <<>> THEN TRUE
    ELSE IF s[1] # t[1] THEN CharRank(s[1]) < CharRank(t[1])
    ELSE TitleBefore(Tail(s), Tail(t))

RECURSIVE order_by_title(_, _)
\* queryset.order_by('title'); equal titles in the order of the primary key
order_by_title(db, S) ==
    IF S = {} THEN <<>>
    ELSE LET m == CHOOSE a \in S : \A b \in S \ {a} :
                      \/ TitleBefore(db[a].title, db[b].title)
                      \/ db[a].title = db[b].title /\ a < b
         IN  <<m>> \o order_by_title(db, S \ {m})

\* make_link(page), without children
make_link(db, x) ==
    [page |-> x, title |-> db[x].title, url |-> get_absolute_url(db, x),
     children |-> <<>>]

\* a reducer that hangs the parent among its own siblings
reducer_with_siblings(db, parent, grandparent) ==
    [make_link(db, grandparent) EXCEPT !.children =
        LET among == order_by_title(db, Children(db, grandparent))
        IN  [i \in 1..Len(among) |->
                IF among[i] = parent.page THEN parent
                ELSE make_link(db, among[i])]]

\* parent_reducer(parent, grandparent): grandparent['children'] = [parent]
parent_reducer(db, parent, grandparent) ==
    [make_link(db, grandparent) EXCEPT !.children = <<parent>>]

RECURSIVE Reduce(_, _, _, _)
\* reduce(parent_reducer, parent_links) from the k-th parent on
Reduce(db, parents, k, link) ==
    IF k > Len(parents) THEN link
    ELSE Reduce(db, parents, k + 1, parent_reducer(db, link, parents[k]))

RECURSIVE Unresolved(_)
\* a link of the tree has no URL
Unresolved(links) ==
    \E i \in 1..Len(links) :
        links[i].url = NoReverseMatch \/ Unresolved(links[i].children)

\* Page.get_sidebar_links: the nested links
get_sidebar_links(db, x) ==
    LET root_pages == order_by_title(db, Children(db, 0))
        parents == get_parents(db, x, Cardinality(DOMAIN db))
        siblings == IF db[x].parent # 0
                    THEN order_by_title(db, Children(db, db[x].parent))
                    ELSE root_pages
        children == order_by_title(db, Children(db, x))
        child_links == [i \in 1..Len(children) |-> make_link(db, children[i])]
        sibling_links ==
            [i \in 1..Len(siblings) |->
                IF siblings[i] = x
                THEN [make_link(db, x) EXCEPT !.children = child_links]
                ELSE make_link(db, siblings[i])]
    IN  IF db[x].parent = 0 THEN sibling_links
        ELSE LET first == [make_link(db, parents[1]) EXCEPT
                              !.children = sibling_links]
                 current_branch == Reduce(db, parents, 2, first)
             IN  [i \in 1..Len(root_pages) |->
                     IF root_pages[i] = parents[Len(parents)]
                     THEN current_branch
                     ELSE make_link(db, root_pages[i])]

\* page.get_sidebar_links() for a view
GetSidebarLinks(x) ==
    /\ x \in PageIds
    /\ LET links == get_sidebar_links(pages, x)
       IN  proc' = IF Unresolved(links)
                   THEN [op |-> "get_sidebar_links", page |-> x,
                         status |-> "raised", got |-> <<>>]
                   ELSE [op |-> "get_sidebar_links", page |-> x,
                         status |-> "returned", got |-> links]
    /\ UNCHANGED <<pageVars, blockVars, others, txn, texts, refs, done,
                   store>>

\* page.get_breadcrumbs() for a view
GetBreadcrumbs(x) ==
    /\ x \in PageIds
    /\ LET crumbs == get_breadcrumbs(pages, x)
       IN  proc' = IF \E i \in 1..Len(crumbs) : crumbs[i].url = NoReverseMatch
                   THEN [op |-> "get_breadcrumbs", page |-> x,
                         status |-> "raised", got |-> <<>>]
                   ELSE [op |-> "get_breadcrumbs", page |-> x,
                         status |-> "returned", got |-> crumbs]
    /\ UNCHANGED <<pageVars, blockVars, others, txn, texts, refs, done,
                   store>>

\* the title of the i-th page of a tree: "!" for the page `bang`, else a run
\* of "A" or of "B", so that the order of the titles is not that of the ids
TreeTitle(i, bang) ==
    IF i = bang THEN <<"!">>
    ELSE [j \in 1..i |-> IF i % 2 = 0 THEN "A" ELSE "B"]

RECURSIVE Planted(_, _, _, _)
\* Page.objects.create(title=..., parent=...) for the pages k.. of a tree,
\* the parent of each an earlier page or none
Planted(db, par, bang, k) ==
    IF k > Len(par) THEN db
    ELSE Planted(save(db, k, NewPage(TreeTitle(k, bang), <<>>, par[k]),
                      FALSE, 1).db,
                 par, bang, k + 1)

\* the trees of MaxTreePages pages
Trees ==
    {Planted(<<>>, par, bang, 1) :
        par \in {f \in [1..MaxTreePages -> 0..MaxTreePages - 1] :
                    \A i \in 1..MaxTreePages : f[i] < i},
        bang \in 0..MaxTreePages}

InitReads ==
    /\ pages \in Trees
    /\ last = Idle
    /\ held = NoInstance
    /\ blocks = <<>>
    /\ call = NoCall
    /\ others = <<>>
    /\ txn = NoTxn
    /\ texts = <<>>
    /\ refs = <<>>
    /\ done = Quiet
    /\ store = NoStore
    /\ proc = NoProc

NextReads ==
    \/ \E x \in PageIds : GetSidebarLinks(x)
    \/ \E x \in PageIds : GetBreadcrumbs(x)

SpecReads == InitReads /\ [][NextReads]_vars

(***************************************************************************)
(* Two requests to AddBlockView for the same page and the same anchor,     *)
(* each in a worker of its own.  A request asks the page for a position    *)
(* and then creates the block; the other request runs in between.  blocks  *)
(* are the rows of the page in the order of their positions, proc the      *)
(* anchor and, for each request, where it is and the position it was       *)
(* given.                                                                  *)
(***************************************************************************)
Requests == 1..2

\* no constraint on the positions
never_taken(rows, position) == FALSE

\* unique_together = ('parent_page', 'position'): a block of the page holds
\* the position
unique_together(rows, position) == position \in PositionsOf(rows)

RECURSIVE PositionAfter(_, _, _, _)
\* parent_page.get_position_after(after) with the calls it makes to itself
\* after a redistribution, at most fuel of them
PositionAfter(rows, after, plan, fuel) ==
    LET out == get_position_after(rows, after, plan)
    IN  IF out.status # "retry" THEN out
        ELSE IF fuel = 0 THEN [out EXCEPT !.status = "raised"]
        ELSE PositionAfter(out.rows, out.after, plan, fuel - 1)

\* form_valid up to position = parent_page.get_position_after(after)
InsertPosition(i) ==
    /\ proc.op = "insert_block"
    /\ proc.reqs[i].pc = "start"
    /\ \E plan \in ScanPlans :
           LET out == PositionAfter(blocks, proc.after, plan,
                                    MaxRedistributions)
           IN  /\ blocks' = out.rows
               /\ proc' = [proc EXCEPT
                              !.reqs[i] =
                                  IF out.status = "returned"
                                  THEN [pc |-> "positioned",
                                        position |-> out.result]
                                  ELSE [pc |-> "raised", position |-> 0]]
    /\ UNCHANGED <<pageVars, call, others, txn, texts, refs, done, store>>

\* Block.objects.create(parent_page=parent_page, position=position): the
\* database refuses the row with an IntegrityError, which form_valid does
\* not catch, or stores it
InsertCreate(i) ==
    /\ proc.op = "insert_block"
    /\ proc.reqs[i].pc = "positioned"
    /\ IF \/ unique_together(blocks, proc.reqs[i].position)
          \/ proc.reqs[i].position > MaxPosition
       THEN /\ blocks' = blocks
            /\ proc' = [proc EXCEPT !.reqs[i].pc = "raised"]
       ELSE /\ blocks' = Inserted(blocks,
                                  [id |-> Len(blocks) + 1,
                                   position |-> proc.reqs[i].position])
            /\ proc' = [proc EXCEPT !.reqs[i].pc = "created"]
    /\ UNCHANGED <<pageVars, call, others, txn, texts, refs, done, store>>

InitInserts ==
    /\ pages = <<>>
    /\ last = Idle
    /\ held = NoInstance
    /\ blocks \in SmallLayouts
    /\ call = NoCall
    /\ others = <<>>
    /\ txn = NoTxn
    /\ texts = <<>>
    /\ refs = <<>>
    /\ done = Quiet
    /\ store = NoStore
    /\ \E a \in {0} \cup IdsFrom(blocks, 1) :
           proc = [op |-> "insert_block", after |-> a,
                   reqs |-> [i \in Requests |->
                                [pc |-> "start", position |-> 0]]]

NextInserts ==
    \/ \E i \in Requests : InsertPosition(i)
    \/ \E i \in Requests : InsertCreate(i)

SpecInserts == InitInserts /\ [][NextInserts]_vars

(***************************************************************************)
(* A page move write by write.  Page.save writes the row of the page and   *)
(* then saves each child in turn, each save a statement of its own that    *)
(* the database commits at once; what another request reads in between is  *)
(* the table of that moment.  proc is the move: the page, the parent it    *)
(* had, the parent it is given, and the children whose save is still to    *)
(* come.                                                                   *)
(***************************************************************************)
\* Page.save of one instance up to and including super().save(): the table,
\* how it ended, and whether the children are to be saved
super_save(db, x, inst0, force) ==
    LET inst1 == FillSlug(inst0)
        check == validate_noncyclic_hierarchy(db, inst1)
        scheduled == force \/ path_needs_redenormalising(inst1)
        inst2 == IF scheduled THEN denormalise_path(db, inst1) ELSE inst1
        row == RowOf(inst2)
    IN  IF check = "raise"
        THEN [db |-> db, status |-> "validation", scheduled |-> FALSE]
        ELSE IF check = "hang"
        THEN [db |-> db, status |-> "hang", scheduled |-> FALSE]
        ELSE IF UniqueViolation(db, x, row)
        THEN [db |-> db, status |-> "integrity", scheduled |-> FALSE]
        ELSE [db |-> WriteRow(db, x, row), status |-> "ok",
              scheduled |-> scheduled]

\* MovePageView: the page is loaded, its parent set from the form, and
\* page.save() runs up to the loop over the children
MoveBegin(x, parent) ==
    /\ proc.op = "move"
    /\ proc.pc = "idle"
    /\ LET r == super_save(pages, x,
                           [PageFromDb(pages, x) EXCEPT !.parent = parent],
                           FALSE)
       IN  /\ pages' = r.db
           /\ proc' = [op |-> "move",
                       pc |-> IF r.status # "ok" THEN "raised"
                              ELSE IF ~r.scheduled
                                      \/ Children(r.db, x) = {}
                              THEN "returned"
                              ELSE "cascading",
                       page |-> x, from |-> pages[x].parent,
                       parent |-> parent,
                       todo |-> IF r.status = "ok" /\ r.scheduled
                                THEN SetToSeq(Children(r.db, x))
                                ELSE <<>>]
    /\ UNCHANGED <<last, held, blockVars, others, txn, texts, refs, done,
                   store>>

\* child.save(redenormalise_path=True) for the next child, up to the loop
\* over its own children
CascadeChild ==
    /\ proc.op = "move"
    /\ proc.pc = "cascading"
    /\ LET c == Head(proc.todo)
           r == super_save(pages, c, PageFromDb(pages, c), TRUE)
           todo == SetToSeq(Children(r.db, c)) \o Tail(proc.todo)
       IN  /\ pages' = r.db
           /\ proc' = [proc EXCEPT
                          !.pc = IF r.status # "ok" THEN "raised"
                                 ELSE IF todo = <<>> THEN "returned"
                                 ELSE "cascading",
                          !.todo = IF r.status # "ok" THEN proc.todo
                                   ELSE todo]
    /\ UNCHANGED <<last, held, blockVars, others, txn, texts, refs, done,
                   store>>

\* a tree of MaxPages pages, then no move yet
InitCascade ==
    /\ pages \in {Planted(<<>>, par, bang, 1) :
                     par \in {f \in [1..MaxPages -> 0..MaxPages - 1] :
                                 \A i \in 1..MaxPages : f[i] < i},
                     bang \in 0..MaxPages}
    /\ last = Idle
    /\ held = NoInstance
    /\ blocks = <<>>
    /\ call = NoCall
    /\ others = <<>>
    /\ txn = NoTxn
    /\ texts = <<>>
    /\ refs = <<>>
    /\ done = Quiet
    /\ store = NoStore
    /\ proc = [op |-> "move", pc |-> "idle", page |-> 0, from |-> 0,
               parent |-> 0, todo |-> <<>>]

NextCascade ==
    \/ \E x \in PageIds, p \in {0} \cup PageIds : MoveBegin(x, p)
    \/ CascadeChild

SpecCascade == InitCascade /\ [][NextCascade]_vars

(***************************************************************************)
(* The sweep of old unpublished blocks, run by the view that publishes a   *)
(* text block.  store holds the rows of cms_block with the time each was   *)
(* created, refs the References, proc the request: the time it runs at,    *)
(* the time-to-live the app is configured with, the block it publishes     *)
(* and the rows it removed.  The blocks hold no hooks.                     *)
(***************************************************************************)
\* every unpublished block of the class, whatever its age
all_unpublished(db, now, ttl) ==
    {b \in DOMAIN db.textblock : ~db.block[b].published}

\* TextBlock.objects.old_unpublished(): the blocks of the class that are
\* unpublished and were created at or before now - ttl
old_unpublished(db, now, ttl) ==
    {b \in DOMAIN db.textblock :
        /\ ~db.block[b].published
        /\ db.block[b].created <= now - ttl}

\* AddTextBlockView at time now + dt for block b: get_object casts a generic
\* block, form_valid publishes it and runs delete_old_unpublished(), which
\* raises AttributeError without a configured time-to-live and
\* ProtectedError when a Reference points at a block to delete
AddTextBlock(b, dt) ==
    /\ proc.op = "add_text_block"
    /\ proc.now + dt <= MaxTime
    /\ LET now == proc.now + dt
           cast == [block |-> [store.block EXCEPT ![b] = ChildRow(@)],
                    textblock |->
                        IF b \in DOMAIN store.textblock THEN store.textblock
                        ELSE WriteRow(store.textblock, b, [content |-> <<>>])]
           saved == [cast EXCEPT !.block[b].published = TRUE]
           old == IF ~proc.configured THEN {}
                  ELSE old_unpublished(saved, now, proc.ttl)
           protected == \E r \in Stored(refs) : refs[r].referenced_block \in old
           status == IF ~proc.configured THEN "AttributeError"
                     ELSE IF protected THEN "ProtectedError"
                     ELSE "returned"
           removed == IF status = "returned" THEN old ELSE {}
           Without(f) == [x \in DOMAIN f \ removed |-> f[x]]
       IN  /\ store' = [block |-> Without(saved.block),
                        textblock |-> Without(saved.textblock)]
           /\ refs' = Remove(refs, {r \in Stored(refs) :
                                       refs[r].containing_block \in removed})
           /\ proc' = [proc EXCEPT !.now = now, !.block = b,
                                   !.was = store.block[b],
                                   !.status = status, !.removed = removed]
    /\ UNCHANGED <<pageVars, blockVars, others, txn, texts, done>>

\* MaxBlocks blocks of one page created one after the other, a published one
\* cast before, with no Reference or one.  ttl is app_config
\* .delete_unpublished_blocks_after in units of the clock: CmsConfig does
\* not define it, the project that installs the app configures it
\* (configured) or does not.
InitSweep ==
    /\ pages = <<>>
    /\ last = Idle
    /\ held = NoInstance
    /\ blocks = <<>>
    /\ call = NoCall
    /\ others = <<>>
    /\ txn = NoTxn
    /\ texts = <<>>
    /\ done = Quiet
    /\ \E created \in [1..MaxBlocks -> 0..MaxTime - 1],
          published \in [1..MaxBlocks -> BOOLEAN],
          text \in [1..MaxBlocks -> BOOLEAN] :
           /\ \A i \in 1..MaxBlocks - 1 : created[i] <= created[i + 1]
           /\ \A i \in 1..MaxBlocks : published[i] => text[i]
           /\ store =
                  [block |->
                       [i \in 1..MaxBlocks |->
                           [parent_page |-> 1, position |-> 100 * i,
                            published |-> published[i],
                            created |-> created[i],
                            polymorphic_ctype |->
                                IF text[i] THEN "textblock" ELSE "block"]],
                   textblock |->
                       [i \in {j \in 1..MaxBlocks : text[j]} |->
                           [content |-> <<>>]]]
           /\ \E ttl \in 0..MaxTime - 1, configured \in BOOLEAN :
                  /\ ~configured => ttl = 0
                  /\ proc =
                         [op |-> "add_text_block", now |-> created[MaxBlocks],
                          configured |-> configured, ttl |-> ttl, block |-> 0,
                          was |-> store.block[1], status |-> "none",
                          removed |-> {}]
    /\ refs \in {<<>>,
                 <<[containing_block |-> 1, referenced_block |-> 2,
                    referenced_page |-> 0]>>,
                 <<[containing_block |-> 2, referenced_block |-> 0,
                    referenced_page |-> 1]>>}

NextSweep == \E b \in DOMAIN store.block, dt \in 0..1 : AddTextBlock(b, dt)

SpecSweep == InitSweep /\ [][NextSweep]_vars

(***************************************************************************)
(* A page filled by insertions only, from no block at all: each request    *)
(* to AddBlockView inserts at the top of the page or after its last        *)
(* block.  proc counts the insertions after the last block.                *)
(***************************************************************************)
\* AddBlockView.form_valid for the anchor `after` (0 is none): the position
\* comes from parent_page.get_position_after(after), with the
\* redistributions it does, and the block is created there
InsertBlock(after) ==
    /\ proc.op = "fill"
    /\ call.pc # "raised"
    /\ Len(blocks) < MaxGrown
    /\ after # 0 => proc.appends < MaxAppends
    /\ LET out == PositionAfter(blocks, after, "position", MaxRedistributions)
           refused == \/ unique_together(out.rows, out.result)
                      \/ out.result > MaxPosition
       IN  /\ blocks' = IF out.status # "returned" \/ refused THEN out.rows
                        ELSE Inserted(out.rows, [id |-> Len(blocks) + 1,
                                                 position |-> out.result])
           /\ call' = [NoCall EXCEPT
                          !.op = "insert_block",
                          !.pc = IF out.status # "returned" THEN "raised"
                                 ELSE IF refused THEN "refused"
                                 ELSE "returned",
                          !.req = after,
                          !.redistributions = out.redistributed,
                          !.result = out.result]
    /\ proc' = [proc EXCEPT !.appends = IF after = 0 THEN @ ELSE @ + 1]
    /\ UNCHANGED <<pageVars, others, txn, texts, refs, done, store>>

InitFill ==
    /\ pages = <<>>
    /\ last = Idle
    /\ held = NoInstance
    /\ blocks = <<>>
    /\ call = NoCall
    /\ others = <<>>
    /\ txn = NoTxn
    /\ texts = <<>>
    /\ refs = <<>>
    /\ done = Quiet
    /\ store = NoStore
    /\ proc = [op |-> "fill", appends |-> 0]

NextFill ==
    \/ InsertBlock(0)
    \/ blocks # <<>> /\ InsertBlock(blocks[Len(blocks)].id)

SpecFill == InitFill /\ [][NextFill]_vars

(***************************************************************************)
(* Two page moves at the same time, each in a worker of its own.  A move   *)
(* reads the page and the tree above its new parent, and then writes; the  *)
(* other move runs in between.  proc holds, for each request, where it is  *)
(* and the instance it is about to write.                                  *)
(***************************************************************************)
\* MovePageView for page x and the parent from the form, up to
\* super().save(): the page is loaded, _validate_noncyclic_hierarchy walks
\* the stored parents and the path is computed from the parent read
MoveCheck(i, x, parent) ==
    /\ proc.op = "moves"
    /\ proc.reqs[i].pc = "start"
    /\ LET inst1 == FillSlug([PageFromDb(pages, x) EXCEPT !.parent = parent])
           check == validate_noncyclic_hierarchy(pages, inst1)
           scheduled == path_needs_redenormalising(inst1)
           inst2 == IF scheduled THEN denormalise_path(pages, inst1)
                    ELSE inst1
       IN  proc' = [proc EXCEPT
                       !.reqs[i] =
                           [pc |-> IF check = "return" THEN "validated"
                                   ELSE "refused",
                            inst |-> inst2, scheduled |-> scheduled]]
    /\ UNCHANGED <<pageVars, blockVars, others, txn, texts, refs, done,
                   store>>

\* the rest of page.save(): super().save() writes the row, then the
\* children are saved, each with its own children
MoveWrite(i) ==
    /\ proc.op = "moves"
    /\ proc.reqs[i].pc = "validated"
    /\ LET inst == proc.reqs[i].inst
           x == inst.id
           row == RowOf(inst)
           written == WriteRow(pages, x, row)
           below == IF proc.reqs[i].scheduled
                    THEN redenormalise_children_paths(
                             written, SetToSeq(Children(written, x)),
                             CascadeFuel(pages))
                    ELSE [db |-> written, status |-> "ok"]
       IN  IF UniqueViolation(pages, x, row)
           THEN /\ pages' = pages
                /\ proc' = [proc EXCEPT !.reqs[i].pc = "integrity"]
           ELSE /\ pages' = below.db
                /\ proc' = [proc EXCEPT
                               !.reqs[i].pc = IF below.status = "ok"
                                              THEN "stored"
                                              ELSE below.status]
    /\ UNCHANGED <<last, held, blockVars, others, txn, texts, refs, done,
                   store>>

\* a tree of MaxPages pages and two requests that have not begun
InitMoves ==
    /\ pages \in {Planted(<<>>, par, 0, 1) :
                     par \in {f \in [1..MaxPages -> 0..MaxPages - 1] :
                                 \A i \in 1..MaxPages : f[i] < i}}
    /\ last = Idle
    /\ held = NoInstance
    /\ blocks = <<>>
    /\ call = NoCall
    /\ others = <<>>
    /\ txn = NoTxn
    /\ texts = <<>>
    /\ refs = <<>>
    /\ done = Quiet
    /\ store = NoStore
    /\ proc = [op |-> "moves",
               reqs |-> [i \in Requests |->
                            [pc |-> "start", inst |-> NoInstance,
                             scheduled |-> FALSE]]]

NextMoves ==
    \/ \E i \in Requests, x \in PageIds, p \in {0} \cup PageIds :
           MoveCheck(i, x, p)
    \/ \E i \in Requests : MoveWrite(i)

SpecMoves == InitMoves /\ [][NextMoves]_vars

(***************************************************************************)
(* What the denormalised fields are meant to hold.                         *)
(***************************************************************************)
RECURSIVE AncestorsOf(_, _, _)
\* the ancestors of x from the root down to its parent (fuel bounds the walk)
AncestorsOf(db, x, fuel) ==
    IF db[x].parent = 0 \/ fuel = 0 THEN <<>>
    ELSE Append(AncestorsOf(db, db[x].parent, fuel - 1), db[x].parent)

AncestorSeq(db, x) == AncestorsOf(db, x, Cardinality(DOMAIN db))
Ancestors(x) == AncestorSeq(pages, x)

SlugsOf(ids) == [i \in 1..Len(ids) |-> pages[ids[i]].slug]
TitlesOf(ids) == [i \in 1..Len(ids) |-> pages[ids[i]].title]

\* a is x or an ancestor of x in table db
SelfOrAncestor(db, a, x) ==
    a = x \/ \E i \in 1..Len(AncestorSeq(db, x)) : AncestorSeq(db, x)[i] = a

\* C1: every stored page's denormalised_path is the slash-join of its
\* ancestors' slugs, root first, after any sequence of creations, moves and
\* slug changes.
PathsAreSlashJoin ==
    \A x \in PageIds :
        pages[x].denormalised_path = Join(<<"/">>, SlugsOf(Ancestors(x)))

\* C2: every stored page's denormalised_titles is the newline-join of its
\* ancestors' current titles, root first, after any sequence of creations,
\* moves and edits of titles and slugs.
TitlesAreNewlineJoin ==
    \A x \in PageIds :
        pages[x].denormalised_titles =
            Join(<<"\n">>, TitlesOf(Ancestors(x)))

\* the step saved an existing page with its parent set to last'.arg (0: to
\* the top level), through a fresh instance or through the held one
SavedReparented == last'.op \in {"move", "held_save"}

\* the parent set is the page itself or one of its descendants
MovedCyclic ==
    /\ SavedReparented
    /\ last'.arg # 0
    /\ SelfOrAncestor(pages, last'.page, last'.arg)

MovedAcyclic ==
    /\ SavedReparented
    /\ ~(last'.arg # 0 /\ SelfOrAncestor(pages, last'.page, last'.arg))

\* C3: saving an existing page whose parent has been set to the page itself
\* or to one of its descendants fails with a validation error and writes
\* nothing (the half of the claim about re-parentings that close a cycle).
CyclicSaveFailsValidation ==
    [][ MovedCyclic => last'.status = "validation" /\ pages' = pages ]_vars

\* The whole sentence: a save that would close a cycle fails with a
\* validation error and writes nothing, and every other re-parenting
\* succeeds.
CyclicMoveFailsOtherMoveSucceeds ==
    [][ /\ MovedCyclic => last'.status = "validation" /\ pages' = pages
        /\ MovedAcyclic => last'.status = "ok" ]_vars

\* the path of a page stored under parent q
PathUnder(q) ==
    IF q = 0 THEN <<>>
    ELSE Join(<<"/">>, Truthy(<<pages[q].denormalised_path, pages[q].slug>>))

\* another page than x has x's slug and the path of a page under q
PathAndSlugTaken(x, q) ==
    \E y \in PageIds :
        /\ y # x
        /\ pages[y].slug = pages[x].slug
        /\ pages[y].denormalised_path = PathUnder(q)

\* What a re-parenting through a freshly loaded instance does: under the page
\* itself or a descendant it fails with a validation error and writes
\* nothing; any other passes the validation and ends well or on the unique
\* constraint of path and slug; the new parent is stored unless another page
\* already has the moved page's slug and new path, and then nothing is
\* written.
CyclicMoveFailsOtherMovePassesValidation ==
    [][ /\ (MovedCyclic /\ last'.op = "move") =>
               last'.status = "validation" /\ pages' = pages
        /\ (MovedAcyclic /\ last'.op = "move") =>
            /\ last'.status \in {"ok", "integrity"}
            /\ last'.status = "ok" => pages'[last'.page].parent = last'.arg
            /\ pages'[last'.page].parent # last'.arg =>
                   /\ pages' = pages
                   /\ PathAndSlugTaken(last'.page, last'.arg) ]_vars

\* a move under a descendant (not under the page itself) was rejected
DescendantMoveRejected ==
    /\ last.op = "move"
    /\ last.status = "validation"
    /\ last.arg # last.page
    /\ SelfOrAncestor(pages, last.page, last.arg)

\* C4: no stored page is its own ancestor, also when one loaded instance is
\* saved several times with its parent reassigned in between.
NoPageIsItsOwnAncestor == ~StoredCycle

(***************************************************************************)
(* What get_position_after and redistribute_positions are meant to do.     *)
(***************************************************************************)
Ended == call.op = "get_position_after" /\ call.pc # "running"

\* the anchor asked for is a block other than the last of the page
AnchorInterior ==
    /\ call.op = "get_position_after"
    /\ call.req # 0
    /\ IndexOf(blocks, call.req) < Len(blocks)

\* the anchor asked for is the last block of the page
AnchorLast ==
    /\ call.op = "get_position_after"
    /\ call.req # 0
    /\ IndexOf(blocks, call.req) = Len(blocks)

\* C5: for an anchor that is not the last block, the position returned is
\* strictly above the anchor's position and strictly below its successor's,
\* whatever order the blocks were created in.
ReturnsBetweenAnchorAndSuccessor ==
    (call.pc = "returned" /\ AnchorInterior) =>
        /\ blocks[IndexOf(blocks, call.req)].position < call.result
        /\ call.result < blocks[IndexOf(blocks, call.req) + 1].position

\* C6: without an anchor the call returns 100 on an empty page, and otherwise
\* a position from 0 up that is below every block's position after the call.
ReturnsBelowEveryBlock ==
    (Ended /\ call.req = 0) =>
        /\ call.pc = "returned"
        /\ call.redistributions = 0 /\ blocks = <<>>
               => call.result = FirstPosition
        /\ blocks # <<>> =>
               /\ call.result >= 0
               /\ \A i \in 1..Len(blocks) : call.result < blocks[i].position

\* C7: after the last block the call returns a position above every block's
\* position after the call: the anchor's position + 100 and no
\* redistribution, unless the anchor was at 32767, and then one
\* redistribution and a retry.
ReturnsAboveEveryBlock ==
    (Ended /\ AnchorLast) =>
        /\ call.pc = "returned"
        /\ \A i \in 1..Len(blocks) : call.result > blocks[i].position
        /\ call.redistributions = IF call.was = MaxPosition THEN 1 ELSE 0
        /\ call.result = blocks[Len(blocks)].position + StepAfterLast

\* C8: every position returned lies in 0..32767.
ReturnsInRange ==
    (call.op = "get_position_after" /\ call.pc = "returned") =>
        call.result \in 0..MaxPosition

\* C9: a call of get_position_after ends, after at most one redistribution
\* and retry.
RetriesAtMostOnce ==
    call.op = "get_position_after" =>
        call.redistributions <= 1 /\ call.pc # "recursion"

\* C10: after redistribute_positions on all the blocks of a page every
\* position is above 0 and two blocks next to each other are more than 1
\* apart.
RedistributionLeavesSpace ==
    (call.op = "redistribute_positions" /\ call.pc = "returned") =>
        /\ \A i \in 1..Len(blocks) : blocks[i].position > 0
        /\ \A i \in 1..Len(blocks) - 1 :
               blocks[i + 1].position - blocks[i].position > 1

\* the step is a call of redistribute_positions on all the blocks of the page
RedistributeStep == call'.op = "redistribute_positions" /\ call' # call

\* C11: redistribute_positions on all the blocks of a page keeps the blocks
\* in their order, puts them at one constant distance from each other, and
\* puts every block between 3277 and 29491.
RedistributionKeepsOrderAndRange ==
    [][ RedistributeStep =>
          /\ Len(blocks') = Len(blocks)
          /\ \A i \in 1..Len(blocks) : blocks'[i].id = blocks[i].id
          /\ \A i \in 1..Len(blocks) - 1 :
                 blocks'[i].position < blocks'[i + 1].position
          /\ \E gap \in 0..MaxPosition :
                 \A i \in 1..Len(blocks) - 1 :
                     blocks'[i + 1].position - blocks'[i].position = gap
          /\ \A i \in 1..Len(blocks) :
                 /\ blocks'[i].position >= 3277
                 /\ blocks'[i].position <= 29491 ]_vars

(***************************************************************************)
(* What redistribute_positions is meant to do on any queryset.             *)
(***************************************************************************)
\* the rows of a page with every block at its new position
AllAtNew(rows) ==
    [i \in 1..Len(rows) |->
        [id |-> rows[i].id,
         position |-> 3277 + (i - 1) * (26214 \div Len(rows))]]

\* C12: whoever reads a page while its blocks are redistributed, or after a
\* redistribution failed part-way, finds all its blocks at their old
\* positions or all at their new ones: nothing changes while the transaction
\* is open or when it fails, and a step that changes a page puts all its
\* blocks at their new positions.
RedistributionIsAtomic ==
    [][ /\ blocks' = blocks \/ blocks' = AllAtNew(blocks)
        /\ others' = others \/ others' = AllAtNew(others)
        /\ (txn'.pc = "open" \/ call'.pc = "raised") =>
               blocks' = blocks /\ others' = others ]_vars

\* a redistribution failed after a block had been saved at its new position
FailedPartWay ==
    /\ call.op = "redistribute_positions"
    /\ call.pc = "raised"
    /\ txn.next > 1

\* the step is a call of redistribute_positions on the queryset that
\* selects txn'.sel1 on the first page and txn'.sel2 on the second
QuerysetStep == txn.pc = "closed" /\ (txn' # txn \/ call' # call)

\* C13: redistribute_positions on blocks of more than one page raises a
\* usage error and changes no block's position.
TwoPagesIsUsageError ==
    [][ (QuerysetStep /\ txn'.sel1 # {} /\ txn'.sel2 # {}) =>
            /\ call'.pc = "usage"
            /\ txn'.pc = "closed"
            /\ blocks' = blocks /\ others' = others ]_vars

\* blocks of both pages were selected and the call raised the usage error
TwoPagesRefused ==
    /\ call.op = "redistribute_positions"
    /\ call.pc = "usage"
    /\ txn.sel1 # {} /\ txn.sel2 # {}

\* the ids selected are some but not all of the blocks of one page, or none
\* of the blocks of a page that has blocks
StrictSubset(sel1, sel2) ==
    \/ sel2 = {} /\ sel1 # IdsFrom(blocks, 1)
    \/ sel1 = {} /\ sel2 # IdsFrom(others, 1)

\* C14 as stated: redistribute_positions on a strict subset of one page's
\* blocks, the empty selection included, raises a usage error and changes
\* no block's position.
StrictSubsetIsUsageError ==
    [][ (QuerysetStep /\ StrictSubset(txn'.sel1, txn'.sel2)) =>
            /\ call'.pc = "usage"
            /\ txn'.pc = "closed"
            /\ blocks' = blocks /\ others' = others ]_vars

\* C14, amended: on some but not all of the blocks of one page the call
\* raises a usage error, on an empty selection it returns without an
\* error, and in both cases no block's position changes.
NonEmptyStrictSubsetIsUsageError ==
    [][ (QuerysetStep /\ StrictSubset(txn'.sel1, txn'.sel2)) =>
            /\ call'.pc = IF txn'.sel1 \cup txn'.sel2 = {} THEN "returned"
                          ELSE "usage"
            /\ txn'.pc = "closed"
            /\ blocks' = blocks /\ others' = others ]_vars

\* some but not all of the blocks of the first page were selected, and the
\* call raised the usage error
PartOfPageRefused ==
    /\ call.op = "redistribute_positions"
    /\ call.pc = "usage"
    /\ txn.sel2 = {}
    /\ txn.sel1 # {}
    /\ txn.sel1 # IdsFrom(blocks, 1)

(***************************************************************************)
(* What find_references is meant to return.                                *)
(***************************************************************************)
\* the strings of digits n such that "!ref(" n ")" stands in the text with
\* no backslash right before it
UnescapedHookIds(text) ==
    {SubSeq(text, i + 1, j - 1) :
        <<i, j>> \in {ij \in (1..Len(text)) \X (1..Len(text)) :
            /\ ij[1] + 1 < ij[2]
            /\ text[ij[1]] = Hook
            /\ (ij[1] = 1 \/ text[ij[1] - 1] # Backslash)
            /\ \A k \in ij[1] + 1..ij[2] - 1 : text[k] \in {"0", "1", "2"}
            /\ text[ij[2]] = Close}}

\* the strings of digits n such that "!ref(" n ")" stands after a backslash
EscapedHookIds(text) ==
    {SubSeq(text, i + 1, j - 1) :
        <<i, j>> \in {ij \in (2..Len(text)) \X (2..Len(text)) :
            /\ ij[1] + 1 < ij[2]
            /\ text[ij[1]] = Hook
            /\ text[ij[1] - 1] = Backslash
            /\ \A k \in ij[1] + 1..ij[2] - 1 : text[k] \in {"0", "1", "2"}
            /\ text[ij[2]] = Close}}

NotOneTarget == (done.referenced_block = 0) = (done.referenced_page = 0)

\* C15: saving a Reference with both targets set, or with neither set,
\* fails with a validation error and stores nothing; every stored Reference
\* points at exactly one of a page and a block.
ReferenceHasOneTarget ==
    /\ [][done'.op = "add_reference" =>
              IF NotOneTarget'
              THEN done'.status = "validation" /\ refs' = refs
              ELSE /\ done'.status = "ok"
                   /\ refs' = Append(refs,
                          [containing_block |-> done'.block,
                           referenced_block |-> done'.referenced_block,
                           referenced_page |-> done'.referenced_page])]_vars
    /\ [](\A r \in Stored(refs) :
              (refs[r].referenced_block = 0) # (refs[r].referenced_page = 0))

\* a Reference was refused while another one is stored
ReferenceRefused ==
    /\ done.op = "add_reference"
    /\ done.status = "validation"
    /\ done.referenced_block # 0
    /\ done.referenced_page # 0
    /\ Stored(refs) # {}

(***************************************************************************)
(* What reference validation is meant to decide.                           *)
(***************************************************************************)
\* the hook id d names a stored Reference whose containing block is b
Backed(b, d) ==
    \E r \in Stored(refs) : r = IntOf(d) /\ refs[r].containing_block = b

\* the last operation validated the content done.content for done.block
Validated == done.op \in {"validate_references", "edit"}

\* the ids in the unescaped hooks of the validated content without a
\* Reference of the block
Missing == {d \in UnescapedHookIds(done.content) : ~Backed(done.block, d)}

\* C17: validate_references(block, content) succeeds if and only if every
\* id in an unescaped hook of the content is the id of a stored Reference
\* whose containing block is this block.
ValidationSucceedsIffBacked ==
    Validated => (done.status = "ok" <=> Missing = {})

\* C18: when validate_references fails, the ids named in the message are
\* exactly the hook ids without a Reference of this block, and the wording
\* is singular exactly when one id is missing.
MessageNamesMissingIds ==
    Validated /\ done.status = "validation" =>
        /\ done.named = Missing
        /\ done.singular <=> Cardinality(Missing) = 1

\* C19: publish on a block whose content holds an unescaped hook without
\* a Reference of the block fails with a validation error and stores
\* nothing; publish succeeds, and stores published = true, only when every
\* hook is backed.
PublishNeedsBackedHooks ==
    [][done'.op = "publish" =>
           LET b == done'.block
               dangling == {d \in UnescapedHookIds(texts[b].content) :
                               ~Backed(b, d)}
           IN  /\ dangling # {} =>
                      done'.status = "validation" /\ texts' = texts
               /\ done'.status = "ok" =>
                      /\ dangling = {}
                      /\ texts' = [texts EXCEPT ![b].published = TRUE]]_vars

\* a publish was refused for a dangling hook and the block is unpublished
PublishRefused ==
    /\ done.op = "publish"
    /\ done.status = "validation"
    /\ ~texts[done.block].published
    /\ \E d \in UnescapedHookIds(texts[done.block].content) :
           ~Backed(done.block, d)

(***************************************************************************)
(* What the deletion of a page is meant to do.                             *)
(***************************************************************************)
\* the stored References that point at page p or at a block of it
PointingAt(p) ==
    {r \in Stored(refs) :
        \/ refs[r].referenced_page = p
        \/ refs[r].referenced_block # 0
           /\ texts[refs[r].referenced_block].page = p}

\* page p has no child page and only References from unpublished blocks
\* point at it and at its blocks
Disposable(p) ==
    /\ \A c \in PageIds : pages[c].parent # p
    /\ \A r \in PointingAt(p) : ~texts[refs[r].containing_block].published

\* the deletion of page p went through: the References that pointed at it
\* are removed, and so are the page and its blocks
DeletedWithReferences(p) ==
    /\ done'.status = "ok"
    /\ \A r \in PointingAt(p) : refs'[r] = Gone
    /\ p \notin DOMAIN pages'
    /\ \A b \in BlockIds : texts[b].page = p => b \notin DOMAIN texts'

\* C20 as stated: deleting a page without child pages that only References
\* from unpublished blocks point at succeeds; those References, the page
\* and its blocks are removed, and every referencing block remains and
\* fails reference validation afterwards.
ReferencingBlocksRemainAndFail ==
    [][done'.op = "delete_page" /\ Disposable(done'.page) =>
           /\ DeletedWithReferences(done'.page)
           /\ \A r \in PointingAt(done'.page) :
                  LET b == refs[r].containing_block
                  IN  /\ b \in DOMAIN texts'
                      /\ validate_references(texts', refs', b, <<>>).status
                             = "validation"]_vars

\* C20: deleting a page without child pages that only References from
\* unpublished blocks point at succeeds; those References, the page and its
\* blocks are removed; the referencing blocks of other pages remain as
\* they were, and those whose content holds an unescaped hook of a removed
\* Reference fail reference validation afterwards.
ReferencingBlocksElsewhereRemain ==
    [][done'.op = "delete_page" /\ Disposable(done'.page) =>
           /\ DeletedWithReferences(done'.page)
           /\ \A r \in PointingAt(done'.page) :
                  LET b == refs[r].containing_block
                  IN  texts[b].page # done'.page =>
                          /\ b \in DOMAIN texts'
                          /\ texts'[b] = texts[b]
                          /\ (\E d \in UnescapedHookIds(texts[b].content) :
                                  IntOf(d) = r) =>
                                 validate_references(texts', refs', b,
                                                     <<>>).status
                                     = "validation"]_vars

\* a page was deleted with a Reference to it, and the block that holds the
\* hook of that Reference remains and fails reference validation
HookLeftDangling ==
    /\ done.op = "delete_page"
    /\ done.status = "ok"
    /\ \E b \in BlockIds, r \in DOMAIN refs :
           /\ refs[r] = Gone
           /\ \E d \in UnescapedHookIds(texts[b].content) : IntOf(d) = r
           /\ ~texts[b].published
           /\ validate_references(texts, refs, b, <<>>).status = "validation"

\* the References from published blocks that point at page p or at a
\* block of it
PublishedPointingAt(p) ==
    {r \in PointingAt(p) : texts[refs[r].containing_block].published}

\* C21: deleting a page is refused with a protected-deletion error whenever
\* a Reference from a published block points at the page or at one of its
\* blocks; the page, its blocks and that Reference remain stored.
PublishedReferenceProtectsPage ==
    [][done'.op = "delete_page" /\ PublishedPointingAt(done'.page) # {} =>
           /\ done'.status = "protected"
           /\ pages' = pages
           /\ texts' = texts
           /\ \A r \in PublishedPointingAt(done'.page) :
                  refs'[r] = refs[r]]_vars

\* a page deletion was refused and a Reference from a published block
\* points at the page, which has no child page
RefusedForPublishedReference ==
    /\ done.op = "delete_page"
    /\ done.status = "protected"
    /\ done.page \in PageIds
    /\ PublishedPointingAt(done.page) # {}
    /\ \A c \in PageIds : pages[c].parent # done.page

\* C22: a page deletion refused with a protected-deletion error leaves the
\* stored pages, blocks and References as they were before it.
RefusedDeletionChangesNothing ==
    [][done'.op = "delete_page" /\ done'.status = "protected" =>
           pages' = pages /\ texts' = texts /\ refs' = refs]_vars

\* the References that point at block b
TargetOf(b) == {r \in Stored(refs) : refs[r].referenced_block = b}

\* C23: deleting a block that only References from unpublished blocks
\* point at removes those References and succeeds; deleting a block that
\* a Reference from a published block points at is refused.
BlockDeletionDropsScratchReferences ==
    [][done'.op = "delete_block" =>
           LET b == done'.block
               live == {r \in TargetOf(b) :
                           texts[refs[r].containing_block].published}
           IN  /\ TargetOf(b) # {} /\ live = {} =>
                      /\ done'.status = "ok"
                      /\ \A r \in TargetOf(b) : refs'[r] = Gone
                      /\ b \notin DOMAIN texts'
               /\ live # {} =>
                      /\ done'.status = "protected"
                      /\ texts' = texts
                      /\ refs' = refs]_vars

(***************************************************************************)
(* What a cast is meant to keep.                                           *)
(***************************************************************************)
\* the step in which cast_to returns the concrete block
CastReturns == proc.pc = "base_saved" /\ proc'.pc = "returned"

\* C24: cast_to on a generic block yields a concrete block with the same
\* primary key and the same parent_page, position, published and created;
\* the lookup by the id then yields the concrete type, and the References
\* that pointed at the block or were contained in it still do.
CastKeepsBlock ==
    [][CastReturns =>
           LET b == proc.id
               got == proc'.result
           IN  /\ got.id = b
               /\ got.type = "TextBlock"
               /\ got.row.parent_page = proc.inst.parent_page
               /\ got.row.position = proc.inst.position
               /\ got.row.published = proc.inst.published
               /\ got.row.created = proc.inst.created
               /\ TypeOf(store', b) = "TextBlock"
               /\ store'.block[b] = got.row
               /\ refs' = refs
               /\ \A r \in Stored(refs) :
                      /\ refs[r].referenced_block = b =>
                             refs'[r].referenced_block = got.id
                      /\ refs[r].containing_block = b =>
                             refs'[r].containing_block = got.id]_vars

\* a published generic block with References was cast
CastDone ==
    /\ proc.pc = "returned"
    /\ proc.result.row.published
    /\ TypeOf(store, proc.id) = "TextBlock"
    /\ \E r \in Stored(refs) : refs[r].referenced_block = proc.id
    /\ \E r \in Stored(refs) : refs[r].containing_block = proc.id

\* C25: when the write of the concrete record fails after the base record
\* was written, nothing the cast wrote is left stored.
CastIsAtomic ==
    [][proc.pc = "base_saved" /\ proc'.pc = "raised" =>
           \/ proc.written = proc.before
           \/ store'.block[proc.id] # proc.written]_vars

(***************************************************************************)
(* What the sidebar is meant to show.                                      *)
(***************************************************************************)
RECURSIVE Levels(_)
\* the lists of links of a tree: the top level and the children of each link
Levels(links) ==
    {links} \cup UNION {Levels(links[i].children) : i \in 1..Len(links)}

\* the pages of a list of links
PagesIn(links) == {links[i].page : i \in 1..Len(links)}

\* the pages shown anywhere in the tree
Shown(links) == UNION {PagesIn(l) : l \in Levels(links)}

\* the pages shown next to page a (a included)
NextTo(links, a) ==
    UNION {PagesIn(l) : l \in {m \in Levels(links) : a \in PagesIn(m)}}

\* the pages with the parent of a
SiblingsOf(a) == {s \in PageIds : pages[s].parent = pages[a].parent}

\* the last read returned the sidebar of a page
SidebarReturned == proc.op = "get_sidebar_links" /\ proc.status = "returned"

\* C26 as stated: for every ancestor a of the page, every page with the
\* parent of a is shown in the sidebar next to a.
AncestorsShownAmongSiblings ==
    SidebarReturned =>
        \A i \in 1..Len(Ancestors(proc.page)) :
            SiblingsOf(Ancestors(proc.page)[i])
                \subseteq NextTo(proc.got, Ancestors(proc.page)[i])

\* C26: the sidebar shows the full sibling set at the level of the page
\* itself and at the top level; an ancestor below the top level is shown
\* alone at its level, without its siblings.
OnlyRootAncestorAmongSiblings ==
    SidebarReturned =>
        /\ NextTo(proc.got, proc.page) = SiblingsOf(proc.page)
        /\ \A i \in 1..Len(Ancestors(proc.page)) :
               LET a == Ancestors(proc.page)[i]
               IN  NextTo(proc.got, a) =
                       IF pages[a].parent = 0 THEN SiblingsOf(a) ELSE {a}

\* the sidebar of a page was returned whose parent is not top-level and has
\* a sibling
AncestorWithSiblingRead ==
    /\ SidebarReturned
    /\ pages[proc.page].parent # 0
    /\ pages[pages[proc.page].parent].parent # 0
    /\ SiblingsOf(pages[proc.page].parent) # {pages[proc.page].parent}
    /\ SiblingsOf(proc.page) # {proc.page}

\* the links of a list are in the order of their titles
InTitleOrder(links) ==
    \A i \in 1..Len(links), j \in 1..Len(links) :
        i < j => ~TitleBefore(links[j].title, links[i].title)

\* the tree shows every top-level page, every ancestor, every sibling
\* and every direct child of page x, no child of a sibling and no descendant
\* below the direct children, each level in the order of the titles
ShowsFamilyInTitleOrder(links, x) ==
    LET shown == Shown(links)
    IN  /\ {p \in PageIds : pages[p].parent = 0} \subseteq shown
        /\ \A i \in 1..Len(Ancestors(x)) : Ancestors(x)[i] \in shown
        /\ SiblingsOf(x) \subseteq shown
        /\ {c \in PageIds : pages[c].parent = x} \subseteq shown
        /\ \A c \in shown :
               /\ pages[c].parent \notin SiblingsOf(x) \ {x}
               /\ (\E i \in 1..Len(Ancestors(c)) : Ancestors(c)[i] = x)
                      => pages[c].parent = x
        /\ \A l \in Levels(links) : InTitleOrder(l)
        /\ \A l \in Levels(links) :
               \A i \in 1..Len(l) : l[i].title = pages[l[i].page].title

\* C27: the sidebar of a page contains every top-level page, every ancestor,
\* every sibling and every direct child of the page, no child of a sibling
\* and no descendant below the direct children; the entries of a level are
\* in the order of their titles.
SidebarShowsFamilyInTitleOrder ==
    proc.op = "get_sidebar_links" =>
        /\ proc.status = "returned"
        /\ ShowsFamilyInTitleOrder(proc.got, proc.page)

\* every sidebar that is returned shows the family in the order of the
\* titles
ReturnedSidebarShowsFamily ==
    SidebarReturned => ShowsFamilyInTitleOrder(proc.got, proc.page)

\* the sidebar of a page with a sibling that has a child, with children of
\* its own that have children, was returned
CousinsLeftOut ==
    /\ SidebarReturned
    /\ \E s \in SiblingsOf(proc.page) \ {proc.page} :
           \E c \in PageIds : pages[c].parent = s
    /\ \E c \in PageIds, g \in PageIds :
           pages[c].parent = proc.page /\ pages[g].parent = c
    /\ \E l \in Levels(proc.got) :
           \E i \in 1..Len(l), j \in 1..Len(l) : i < j /\ l[i].page > l[j].page

(***************************************************************************)
(* What the breadcrumbs are meant to list.                                 *)
(***************************************************************************)
\* the cached path and titles of page x are those of its ancestors
CacheConsistent(x) ==
    /\ pages[x].denormalised_path = Join(<<"/">>, SlugsOf(Ancestors(x)))
    /\ pages[x].denormalised_titles = Join(<<"\n">>, TitlesOf(Ancestors(x)))

\* the URL made of the path and the slug of page a
UrlOf(a) ==
    IF pages[a].denormalised_path = <<>>
    THEN <<"/">> \o pages[a].slug \o <<"/">>
    ELSE <<"/">> \o pages[a].denormalised_path \o <<"/">> \o pages[a].slug
         \o <<"/">>

\* the crumbs are those of page x and of its ancestors, the parent first,
\* each with the title and the URL of its page
CrumbsOfChain(crumbs, x) ==
    LET up == Ancestors(x)
        d == Len(up)
        chain == [i \in 1..d + 1 |-> IF i = 1 THEN x ELSE up[d + 2 - i]]
    IN  /\ Len(crumbs) = d + 1
        /\ \A i \in 1..d + 1 :
               /\ crumbs[i].title = pages[chain[i]].title
               /\ crumbs[i].url = UrlOf(chain[i])

\* C28: for a page at depth d whose cached path and titles are consistent
\* with the tree, get_breadcrumbs returns d+1 crumbs, from the page to its
\* root ancestor, each with the title of its node and the URL made of the
\* node's own path and slug.
BreadcrumbsFollowChain ==
    proc.op = "get_breadcrumbs" /\ CacheConsistent(proc.page) =>
        /\ proc.status = "returned"
        /\ CrumbsOfChain(proc.got, proc.page)

\* the breadcrumbs that are returned for a page with a consistent cache
\* follow the chain
ReturnedBreadcrumbsFollowChain ==
    /\ proc.op = "get_breadcrumbs"
    /\ proc.status = "returned"
    /\ CacheConsistent(proc.page)
    => CrumbsOfChain(proc.got, proc.page)

(***************************************************************************)
(* What two concurrent insertions leave on the page.                       *)
(***************************************************************************)
\* no two blocks of the page are stored at one position
PositionsDistinct ==
    \A i \in 1..Len(blocks), j \in 1..Len(blocks) :
        i # j => blocks[i].position # blocks[j].position

\* C29: two concurrent requests to insert a block on one page after one
\* anchor can be given the same position; the creation of the block by the
\* one that comes second is then refused on the unique (parent_page,
\* position) constraint and leaves the rows as they are, the request is not
\* tried again, and no state stores two blocks of the page at one position.
ConcurrentInsertsKeepPositionsDistinct ==
    /\ [](proc.op = "insert_block" => PositionsDistinct)
    /\ [][\A i \in Requests :
             /\ proc.op = "insert_block"
             /\ proc.reqs[i].pc = "positioned"
             /\ proc'.reqs[i].pc # "positioned"
             /\ proc.reqs[i].position \in PositionsOf(blocks)
             => proc'.reqs[i].pc = "raised" /\ blocks' = blocks]_vars
    /\ [][\A i \in Requests :
             proc.op = "insert_block" /\ proc.reqs[i].pc = "raised"
             => proc'.reqs[i] = proc.reqs[i]]_vars

\* both requests were given the same position; one created its block there
\* and the other was refused
SecondInsertRefused ==
    /\ proc.op = "insert_block"
    /\ proc.reqs[1].pc = "created"
    /\ proc.reqs[2].pc = "raised"
    /\ proc.reqs[1].position = proc.reqs[2].position
    /\ proc.reqs[1].position \in PositionsOf(blocks)
    /\ Cardinality({k \in 1..Len(blocks) :
                       blocks[k].position = proc.reqs[1].position}) = 1

(***************************************************************************)
(* What a page move shows while it runs.                                   *)
(***************************************************************************)
\* the page of the move is stored under its new parent with the path of
\* that place
MovedPageStored ==
    /\ proc.op = "move"
    /\ proc.page # 0
    /\ proc.parent # proc.from
    /\ pages[proc.page].parent = proc.parent
    /\ pages[proc.page].denormalised_path
           = generate_denormalised_path(pages, pages[proc.page])

\* the stored path of page d is not the one its stored parent gives it
PathBehind(d) ==
    pages[d].denormalised_path # generate_denormalised_path(pages, pages[d])

\* C30: a page move is atomic with its cascade: no state that a concurrent
\* reader can see, and no state that a cascade failing part-way leaves,
\* has the moved page stored with its new parent and path while one of its
\* descendants is still stored with a path computed from the old place.
MoveIsAtomicWithCascade ==
    MovedPageStored
    => \A d \in PageIds :
           ReachesUp(proc.page, d, Cardinality(PageIds)) => ~PathBehind(d)

(***************************************************************************)
(* What the sweep of old unpublished blocks removes.                       *)
(***************************************************************************)
\* the blocks that a step removes
Swept == DOMAIN store.block \ DOMAIN store'.block

\* C31: delete_old_unpublished removes only blocks that are unpublished and
\* were created at least the configured time-to-live before the sweep: it
\* removes no published block and no unpublished block younger than the
\* time-to-live, and the block that the request published just before the
\* sweep is stored and published after it.
SweepRemovesOnlyOldUnpublished ==
    [][proc.op = "add_text_block"
       => /\ \A b \in Swept :
                 /\ ~store.block[b].published
                 /\ proc.configured
                 /\ store.block[b].created <= proc'.now - proc.ttl
                 /\ b # proc'.block
          /\ proc'.block \in DOMAIN store'.block
          /\ store'.block[proc'.block].published]_vars

\* a sweep removed a block while the block of the request, unpublished and
\* older than the time-to-live before the request, and a younger
\* unpublished text block are still stored
OldBlockSwept ==
    /\ proc.op = "add_text_block"
    /\ proc.status = "returned"
    /\ proc.removed # {}
    /\ proc.configured
    /\ ~proc.was.published
    /\ proc.was.created <= proc.now - proc.ttl
    /\ proc.block \in DOMAIN store.block
    /\ \E y \in DOMAIN store.textblock :
           /\ ~store.block[y].published
           /\ store.block[y].created > proc.now - proc.ttl

(***************************************************************************)
(* A position after the only block of a page, stored at position 0.        *)
(***************************************************************************)
\* get_position_after(anchor) returned for a page whose only block, the
\* anchor, was at position 0 when it was called
AfterSoleBlockAtZero ==
    /\ call.op = "get_position_after"
    /\ call.pc = "returned"
    /\ call.req # 0
    /\ call.was = 0
    /\ Len(blocks) = 1

\* C32 as stated: for a page whose only block is at position 0,
\* get_position_after(that block) redistributes the blocks of the page
\* before it returns, and returns a position above the anchor's position
\* after the redistribution and at most 32767.
SoleBlockAtZeroRedistributes ==
    AfterSoleBlockAtZero
    => /\ call.redistributions >= 1
       /\ call.result > blocks[1].position
       /\ call.result <= MaxPosition

\* C32: for a page whose only block is at position 0,
\* get_position_after(that block) returns the anchor's position + 100
\* without a redistribution: the block stays at position 0 and the position
\* returned is above it and at most 32767.
SoleBlockAtZeroGivesStep ==
    AfterSoleBlockAtZero
    => /\ call.redistributions = 0
       /\ blocks[1].position = 0
       /\ call.result = StepAfterLast
       /\ call.result > blocks[1].position
       /\ call.result <= MaxPosition

\* the call returned 100 for the only block, which is at position 0
StepAfterSoleBlockReturned ==
    /\ AfterSoleBlockAtZero
    /\ call.result = 100
    /\ blocks[1].position = 0

(***************************************************************************)
(* What a save without a change of slug or parent leaves alone.            *)
(***************************************************************************)
\* the cached path of page x is empty exactly when x is a top-level page
PathMatchesStatus(x) ==
    (pages[x].denormalised_path = <<>>) <=> (pages[x].parent = 0)

\* no stored path and no stored list of titles changes in the step
CachesUntouched ==
    \A y \in PageIds :
        /\ y \in DOMAIN pages'
        /\ pages'[y].denormalised_path = pages[y].denormalised_path
        /\ pages'[y].denormalised_titles = pages[y].denormalised_titles

\* C33: saving a loaded page on which only the title was edited, neither
\* the slug nor the parent, and whose cached path matches its being
\* top-level or not, recomputes nothing: its own denormalised_path and
\* denormalised_titles and those of all its descendants are left as they
\* were, and no descendant is saved again.
TitleEditRecomputesNothing ==
    [][last'.op = "title"
       => \A x \in PageIds :
              /\ x \in DOMAIN pages'
              /\ pages'[x].title # pages[x].title
              /\ PathMatchesStatus(x)
              => CachesUntouched]_vars

\* the same for a page that is stored with a slug
TitleEditOfSluggedPageRecomputesNothing ==
    [][last'.op = "title"
       => \A x \in PageIds :
              /\ x \in DOMAIN pages'
              /\ pages'[x].title # pages[x].title
              /\ pages[x].slug # <<>>
              /\ PathMatchesStatus(x)
              => CachesUntouched]_vars

(***************************************************************************)
(* What the deletion of pages leaves of the tree and of the blocks.        *)
(***************************************************************************)
\* the parent of every page that has one is stored, and so is the page of
\* every block
RowsPointAtStoredPages ==
    /\ \A x \in PageIds : pages[x].parent # 0 => pages[x].parent \in PageIds
    /\ \A b \in BlockIds : texts[b].page \in PageIds

\* C34: the deletion of a page that has a child page is refused and the
\* page stays stored; in every state the parent of every page that is not
\* top-level is a stored page and the page of every block is a stored page
\* (the blocks of a page are removed with it).
ChildProtectsPageAndRowsPointAtPages ==
    /\ []RowsPointAtStoredPages
    /\ [][/\ done'.op = "delete_page"
          /\ \E c \in PageIds : pages[c].parent = done'.page
          => /\ done'.status = "protected"
             /\ pages' = pages
             /\ texts' = texts]_vars

\* the deletion of a page was refused for its child page: the page, with
\* its block, and the child are stored
RefusedForChildPage ==
    /\ done.op = "delete_page"
    /\ done.status = "protected"
    /\ done.page \in PageIds
    /\ \E c \in PageIds : pages[c].parent = done.page
    /\ BlocksOf(done.page) # {}

(***************************************************************************)
(* Redistribution on a page that insertions filled.                        *)
(***************************************************************************)
\* C35: on every page that a sequence of insertions reaches, each at the
\* position get_position_after gave it, redistribute_positions on all the
\* blocks of the page completes: no block is written to a position that
\* another block of the page still holds, so the unique (parent_page,
\* position) constraint is not violated part-way and the insertion that
\* started the redistribution does not fail.
RedistributionOfFilledPageCompletes ==
    proc.op = "fill" /\ call.op = "insert_block" => call.pc # "raised"

(***************************************************************************)
(* What two concurrent page moves store.                                   *)
(***************************************************************************)
\* C36: two concurrent page moves that each pass the cycle check on the
\* stored tree they read (A under B while B is moved under A) are not both
\* stored: no interleaving of the two leaves a page that is its own
\* ancestor.
ConcurrentMovesStoreNoCycle ==
    proc.op = "moves" => ~StoredCycle

(***************************************************************************)
(* The hooks of published blocks.                                          *)
(***************************************************************************)
\* C37: in every state reached by edits of blocks, publishes, creations and
\* deletions of References, deletions of pages and deletions of blocks,
\* every unescaped hook in the content of a published block names a stored
\* Reference whose containing block is that block: a published block holds
\* no dangling hook.
PublishedBlocksHoldNoDanglingHook ==
    \A b \in BlockIds :
        texts[b].published
        => \A d \in UnescapedHookIds(texts[b].content) : Backed(b, d)

====
